---- MODULE Spec2Model ----
(***************************************************************************)
(* Chat-Sphere: the conversation core (storage, HTTP request handlers).    *)
(*                                                                         *)
(* Spec      one request handler at a time, each handler atomic.           *)
(* SpecRace  two findOrCreatePrivateConversation calls whose storage steps *)
(*           interleave at every await.                                    *)
(* SpecTyping  the socket gateway's typing events and their timers.        *)
(* SpecTypingLive  the same with sockets that disconnect.                  *)
(* SpecGateway  connections: handshake, presence, rooms, event delivery.   *)
(* SpecFanout  conversation creation followed by sends.                    *)
(* SpecMarkRead  mark-read calls interleaved at their awaits.              *)
(* SpecRegister  registrations interleaved at their awaits.                *)
(* SpecQueries  the list queries of the storage, between writes.           *)
(* SpecCache  a client's cached message lists.                             *)
(* SpecParity  the same storage calls applied to both storages.            *)
(* SpecEvents  join and typing events with malformed payloads.             *)
(* SpecGatewayLive  SpecGateway with every awaited storage call answered.  *)
(*                                                                         *)
(* Time is the wall clock read by new Date() / defaultNow(); it is taken   *)
(* to be non-decreasing and is counted in ticks of the stored resolution.  *)
(* Identifiers produced by crypto.randomUUID() are modelled as the next    *)
(* unused index of the collection they key.                                *)
(***************************************************************************)
EXTENDS Integers, Sequences, FiniteSets, TLC

\* ------------------------------------------------------------------ bounds
MaxTime == 1
MaxConvs == 3
MaxMsgs == 4
MaxReqs == 1
MaxPids == 2
MaxFriendReqs == 2
MaxFriendMsgs == 5
MaxInFlight == 2
MaxTypingEvents == 2

\* --------------------------------------------------------------- constants
Users == {"alice", "bob", "charlie"}
Null == "null"
SystemText == "You both are friends now"
Contents == {"hi"}
StorageKinds == {"MemStorage", "DatabaseStorage"}
OrderedPairs == {p \in Users \X Users : p[1] # p[2]}

\* the socket ids and the user whose client opens each one
Sockets == {"s1", "s2", "s3"}

SocketUserId(s) == IF s = "s3" THEN "charlie" ELSE "alice"

VARIABLES
  storage,                   \* which IStorage implementation is in use
  clock,                     \* current time
  conversations,             \* Seq of [id, isGroup, lastMessageAt]
  conversationParticipants,  \* conversation id -> Seq of membership rows
  messages,                  \* conversation id -> Seq of messages
  friendRequests,            \* Seq of [id, senderId, receiverId, status, createdAt]
  response,                  \* the last request and its answer
  emitted,                   \* socket events emitted by the last request
  calls,                     \* requests and socket events in flight
  typingTimeouts,            \* "userId:conversationId" -> id of the timer stored
  timers,                    \* the timers setTimeout scheduled and not yet run
  userSockets,               \* user id -> set of the socket ids registered
  sockets,                   \* socket id -> state of the connection
  users,                     \* user id -> stored isOnline and lastSeen
  typingEvents,              \* number of typing events the clients have sent
  accounts,                  \* Seq of [id, username]: the users stored
  cache,                     \* a client's cached message lists, by conversation
  replica                    \* a DatabaseStorage store given the calls the MemStorage store gets

vars == <<storage, clock, conversations, conversationParticipants, messages,
          friendRequests, response, emitted, calls, typingTimeouts, timers,
          userSockets, sockets, users, typingEvents, accounts, cache, replica>>

\* the state of the socket gateway
\* what neither the conversation handlers nor the gateway write
aside == <<accounts, cache, replica>>

connections == <<userSockets, sockets, users, typingEvents, aside>>

gateway == <<typingTimeouts, timers, userSockets, sockets, users, typingEvents, aside>>

store == <<conversations, conversationParticipants, messages, friendRequests>>

\* ----------------------------------------------------------------- helpers
\* new Map(): no typing timeout stored
NoTimeouts == [k \in {} |-> 0]

\* new Map(): no user has a socket registered
NoUserSockets == [u \in {} |-> {}]

\* socket.handshake.query.token: the user named and who signed it
NoToken == [userId |-> Null, signedBy |-> Null]

SignedToken(userId) == [userId |-> userId, signedBy |-> "server"]

ForgedToken(userId) == [userId |-> userId, signedBy |-> "forged"]

\* a socket id no client has opened yet; pc is the await its connection or
\* disconnect handler is suspended at
NewSocket ==
  [status |-> "new", token |-> NoToken, userId |-> Null, listening |-> FALSE,
   rooms |-> {}, pc |-> "none"]

\* a socket whose connection handler has run to its end
ConnectedSocket(userId) ==
  [status |-> "connected", token |-> SignedToken(userId), userId |-> userId,
   listening |-> TRUE, rooms |-> {}, pc |-> "none"]

\* the users seedDatabase creates, username and id in one
SeedAccounts == [i \in 1..3 |-> [id |-> i, username |-> <<"alice", "bob", "charlie">>[i]]]

\* the query cache before any message list was loaded
NoCache == [c \in {} |-> <<>>]

\* a store with no conversation
NoReplica == [conversations |-> <<>>, conversationParticipants |-> <<>>, messages |-> <<>>]

\* createUser: isOnline false, lastSeen the time of creation
SeedUsers == [u \in Users |-> [isOnline |-> FALSE, lastSeen |-> 0]]

Min(a, b) == IF a < b THEN a ELSE b

Range(s) == {s[i] : i \in 1..Len(s)}

\* time that may pass before the next clock read (0 or 1 tick, capped)
Elapsed(t) == 0..Min(1, MaxTime - t)

\* [...new Set(ids)]: first occurrences, in order
RECURSIVE Dedup(_)
Dedup(s) ==
  IF s = <<>> THEN <<>>
  ELSE LET r == Dedup(SubSeq(s, 1, Len(s) - 1))
           x == s[Len(s)]
       IN IF x \in Range(r) THEN r ELSE Append(r, x)

TotalMessages(msgs) ==
  LET RECURSIVE Sum(_)
      Sum(c) == IF c = 0 THEN 0 ELSE Len(msgs[c]) + Sum(c - 1)
  IN Sum(Len(msgs))

\* sequences over S of length 0..n
SeqsUpTo(S, n) == UNION {[1..k -> S] : k \in 0..n}

\* ------------------------------------ storage (MemStorage / DatabaseStorage)
UserIdsOf(rows) == {rows[i].userId : i \in 1..Len(rows)}

\* a membership test that forgets the conversation filter
isUserInAnyConversation(parts, userId, c) ==
  \E d \in 1..Len(parts) : userId \in UserIdsOf(parts[d])

isUserInConversation(parts, userId, c) ==
  c \in 1..Len(parts) /\ userId \in UserIdsOf(parts[c])

\* participants.find(p => p.userId === userId) / .limit(1): 0 when absent
FindParticipant(rows, userId) ==
  IF userId \in UserIdsOf(rows)
  THEN CHOOSE i \in 1..Len(rows) :
         /\ rows[i].userId = userId
         /\ \A j \in 1..(i - 1) : rows[j].userId # userId
  ELSE 0

\* unread tests that skip system messages / count the watermark's own tick
IsUnreadNoSystem(m, lastReadAt) == ~m.isSystem /\ m.createdAt > lastReadAt
IsUnreadGe(m, lastReadAt) == m.createdAt >= lastReadAt

IsUnread(m, lastReadAt) == m.createdAt > lastReadAt

RECURSIVE CountUnread(_, _)
CountUnread(msgs, lastReadAt) ==
  IF msgs = <<>> THEN 0
  ELSE (IF IsUnread(Head(msgs), lastReadAt) THEN 1 ELSE 0)
       + CountUnread(Tail(msgs), lastReadAt)

getUnreadCount(parts, msgs, userId, c) ==
  IF c \notin 1..Len(parts) THEN 0
  ELSE LET p == FindParticipant(parts[c], userId)
       IN IF p = 0 THEN 0
          ELSE CountUnread(msgs[c], parts[c][p].lastReadAt)

ReadWatermark(t) == t

\* an update that forgets the userId filter: every row of the conversation
markConversationAsReadAll(parts, userId, c, t) ==
  IF c \notin 1..Len(parts) THEN parts
  ELSE [parts EXCEPT ![c] = [i \in 1..Len(parts[c]) |->
                               [parts[c][i] EXCEPT !.lastReadAt = t]]]

markConversationAsRead(parts, userId, c, t) ==
  IF c \notin 1..Len(parts) THEN parts
  ELSE LET p == FindParticipant(parts[c], userId)
       IN IF p = 0 THEN parts
          ELSE [parts EXCEPT ![c][p].lastReadAt = ReadWatermark(t)]

\* a createMessage that forgets to bump the conversation
updateConversationLastMessageNoop(convs, c, t) == convs

updateConversationLastMessage(convs, c, t) ==
  IF c \in 1..Len(convs) THEN [convs EXCEPT ![c].lastMessageAt = t] ELSE convs

NewMessage(msgs, c, senderId, content, isSystem, t) ==
  [id |-> TotalMessages(msgs) + 1, conversationId |-> c, senderId |-> senderId,
   content |-> content, isSystem |-> isSystem, createdAt |-> t]

\* the message insert of createMessage
InsertMessage(msgs, c, senderId, content, isSystem, t) ==
  [msgs EXCEPT ![c] = Append(@, NewMessage(msgs, c, senderId, content, isSystem, t))]

\* membership rows createConversation adds, in insertion order
ParticipantIdsToAdd(kind, participantIds, creatorId) ==
  IF kind = "MemStorage"
  THEN <<creatorId>> \o participantIds
  ELSE Dedup(participantIds \o <<creatorId>>)

NewParticipant(userId, t) == [userId |-> userId, joinedAt |-> t, lastReadAt |-> t]

NewConversation(convs, isGroup, t) ==
  [id |-> Len(convs) + 1, isGroup |-> isGroup, lastMessageAt |-> t]

createConversationRows(kind, participantIds, creatorId, t) ==
  LET ids == ParticipantIdsToAdd(kind, participantIds, creatorId)
  IN [i \in 1..Len(ids) |-> NewParticipant(ids[i], t)]

\* a match that forgets to look for the second user
IsPrivateMatchOneUser(kind, convs, parts, c, u1, u2) ==
  /\ ~convs[c].isGroup
  /\ u1 \in UserIdsOf(parts[c])
  /\ IF kind = "MemStorage"
     THEN Len(parts[c]) = 2
     ELSE Cardinality(UserIdsOf(parts[c])) = 2

\* does findOrCreatePrivateConversation accept conversation c for (u1, u2)
IsPrivateMatch(kind, convs, parts, c, u1, u2) ==
  /\ ~convs[c].isGroup
  /\ u1 \in UserIdsOf(parts[c])
  /\ u2 \in UserIdsOf(parts[c])
  /\ IF kind = "MemStorage"
     THEN Len(parts[c]) = 2
     ELSE Cardinality(UserIdsOf(parts[c])) = 2

\* the conversation findOrCreatePrivateConversation returns; 0: none, create
FindPrivateConversation(kind, convs, parts, u1, u2) ==
  LET hits == {c \in 1..Len(convs) : IsPrivateMatch(kind, convs, parts, c, u1, u2)}
  IN IF hits = {} THEN 0
     ELSE CHOOSE c \in hits : \A d \in hits : c <= d

areFriends(reqs, u1, u2) ==
  \E i \in 1..Len(reqs) :
    /\ reqs[i].status = "accepted"
    /\ \/ (reqs[i].senderId = u1 /\ reqs[i].receiverId = u2)
       \/ (reqs[i].senderId = u2 /\ reqs[i].receiverId = u1)

\* a lookup that misses the record of the opposite direction
ExistingRequestOneWay(reqs, senderId, receiverId) ==
  LET hits == {i \in 1..Len(reqs) :
                 reqs[i].senderId = senderId /\ reqs[i].receiverId = receiverId}
  IN IF hits = {} THEN 0
     ELSE CHOOSE i \in hits : \A j \in hits : i <= j

\* the record sendFriendRequest finds between the two users; 0 when none
ExistingRequest(reqs, senderId, receiverId) ==
  LET hits == {i \in 1..Len(reqs) :
                 \/ (reqs[i].senderId = senderId /\ reqs[i].receiverId = receiverId)
                 \/ (reqs[i].senderId = receiverId /\ reqs[i].receiverId = senderId)}
  IN IF hits = {} THEN 0
     ELSE CHOOSE i \in hits : \A j \in hits : i <= j

\* a send that returns a rejected record as it is, like a pending one
sendFriendRequestKeepRejected(reqs, senderId, receiverId, t) ==
  IF ExistingRequest(reqs, senderId, receiverId) # 0
  THEN reqs
  ELSE Append(reqs, [id |-> Len(reqs) + 1, senderId |-> senderId,
                     receiverId |-> receiverId, status |-> "pending",
                     createdAt |-> t])

sendFriendRequest(reqs, senderId, receiverId, t) ==
  LET e == ExistingRequest(reqs, senderId, receiverId)
  IN IF e # 0
     THEN IF reqs[e].status = "rejected"
          THEN [reqs EXCEPT ![e] = [id |-> e, senderId |-> senderId,
                                    receiverId |-> receiverId,
                                    status |-> "pending", createdAt |-> t]]
          ELSE reqs
     ELSE Append(reqs, [id |-> Len(reqs) + 1, senderId |-> senderId,
                        receiverId |-> receiverId, status |-> "pending",
                        createdAt |-> t])

updateFriendRequestStatus(reqs, requestId, status) ==
  IF requestId \in 1..Len(reqs)
  THEN [reqs EXCEPT ![requestId].status = status]
  ELSE reqs

\* getSentFriendRequests: every record the user sent, whatever its status
getSentFriendRequests(reqs, userId) ==
  SelectSeq(reqs, LAMBDA r : r.senderId = userId)

\* getFriendRequests: the pending records the user received (the order by
\* createdAt does not change which status the handler derives)
getFriendRequests(reqs, userId) ==
  SelectSeq(reqs, LAMBDA r : r.receiverId = userId /\ r.status = "pending")

\* GET /api/friends/status/:userId: the status userId sees about otherUserId
friendStatus(reqs, userId, otherUserId) ==
  LET sentTo == SelectSeq(getSentFriendRequests(reqs, userId),
                          LAMBDA r : r.receiverId = otherUserId)
      received == SelectSeq(getFriendRequests(reqs, userId),
                            LAMBDA r : r.senderId = otherUserId /\ r.status = "pending")
  IN IF areFriends(reqs, userId, otherUserId) THEN "accepted"
     ELSE IF sentTo # <<>> /\ sentTo[1].status = "pending" THEN "pending"
     ELSE IF sentTo # <<>> /\ sentTo[1].status = "rejected" THEN "none"
     ELSE IF received # <<>> THEN "received"
     ELSE "none"

\* getConversationParticipants: the users of the membership rows
getConversationParticipants(kind, parts, c) ==
  LET ids == [i \in 1..Len(parts[c]) |-> parts[c][i].userId]
  IN IF kind = "MemStorage" THEN ids ELSE Dedup(ids)

\* ------------------------------------------------------------ initial state
\* seedDatabase on an empty store: alice, bob, charlie, a private conversation
\* alice-bob with two messages, and the group "Team Chat" with one
SeedConversations ==
  LET c1 == NewConversation(<<>>, FALSE, 0)
  IN <<c1, NewConversation(<<c1>>, TRUE, 0)>>

SeedParticipants(kind) ==
  <<createConversationRows(kind, <<"bob">>, "alice", 0),
    createConversationRows(kind, <<"bob", "charlie">>, "alice", 0)>>

SeedMessages ==
  LET m0 == <<<<>>, <<>>>>
      m1 == InsertMessage(m0, 1, "alice", "Hey Bob! How are you doing?", FALSE, 0)
      m2 == InsertMessage(m1, 1, "bob", "Hi Alice! I'm doing great, thanks for asking!", FALSE, 0)
  IN InsertMessage(m2, 2, "alice", "Welcome to the team chat everyone!", FALSE, 0)

\* pair: the users of the findOrCreatePrivateConversation call the request made
NoResponse ==
  [op |-> "none", userId |-> Null, status |-> 0, conv |-> 0, req |-> 0, pair |-> {}]

Init ==
  /\ storage \in StorageKinds
  /\ clock = 0
  /\ conversations = SeedConversations
  /\ conversationParticipants = SeedParticipants(storage)
  /\ messages = SeedMessages
  /\ friendRequests = <<>>
  /\ response = NoResponse
  /\ emitted = <<>>
  /\ calls = <<>>
  /\ typingTimeouts = NoTimeouts
  /\ timers = {}
  /\ userSockets = NoUserSockets
  /\ sockets = [s \in Sockets |-> NewSocket]
  /\ users = SeedUsers
  /\ typingEvents = 0
  /\ accounts = SeedAccounts
  /\ cache = NoCache
  /\ replica = NoReplica

\* ---------------------------------------------------------- request handlers
\* the time a handler's first clock read may return
Now == clock..Min(clock + 1, MaxTime)

ConvIds == 1..MaxConvs
ReqIds == 1..(MaxReqs + 1)
ParticipantIdLists == SeqsUpTo(Users, MaxPids)

Answer(op, u, status, c, r) ==
  [op |-> op, userId |-> u, status |-> status, conv |-> c, req |-> r, pair |-> {}]

AnswerFound(op, u, status, c, r, u1, u2) ==
  [op |-> op, userId |-> u, status |-> status, conv |-> c, req |-> r,
   pair |-> {u1, u2}]

UserEvent(name, u) == [name |-> name, user |-> u, room |-> 0]
RoomEvent(name, c) == [name |-> name, user |-> Null, room |-> c]

Forbidden == 403
NotFound == 404
BadRequest == 400
Ok == 200
Created == 201

\* GET /api/conversations/:id
GetConversationReq(u, c) ==
  /\ response' = Answer("getConversation", u,
                         IF isUserInConversation(conversationParticipants, u, c)
                         THEN Ok ELSE Forbidden, c, 0)
  /\ emitted' = <<>>
  /\ UNCHANGED <<gateway, storage, clock, store, calls>>

\* GET /api/conversations/:id/messages
ListMessagesReq(u, c) ==
  /\ response' = Answer("listMessages", u,
                         IF isUserInConversation(conversationParticipants, u, c)
                         THEN Ok ELSE Forbidden, c, 0)
  /\ emitted' = <<>>
  /\ UNCHANGED <<gateway, storage, clock, store, calls>>

\* POST /api/conversations/:id/read
MarkReadReq(u, c) ==
  /\ emitted' = <<>>
  /\ IF ~isUserInConversation(conversationParticipants, u, c)
     THEN /\ response' = Answer("markRead", u, Forbidden, c, 0)
          /\ UNCHANGED <<clock, conversationParticipants>>
     ELSE \E t \in Now :
            /\ conversationParticipants' =
                 markConversationAsRead(conversationParticipants, u, c, t)
            /\ clock' = t
            /\ response' = Answer("markRead", u, Ok, c, 0)
  /\ UNCHANGED <<gateway, storage, conversations, messages, friendRequests, calls>>

\* createMessage: insert at t, then bump the conversation's lastMessageAt at t2
LastActivity(t, t2) == t2

\* POST /api/messages, with at most maxMsgs messages stored
SendMessageOp(u, c, content, maxMsgs) ==
  IF ~isUserInConversation(conversationParticipants, u, c)
  THEN /\ response' = Answer("sendMessage", u, Forbidden, c, 0)
       /\ emitted' = <<>>
       /\ UNCHANGED <<gateway, storage, clock, store, calls>>
  ELSE /\ TotalMessages(messages) < maxMsgs
       /\ \E t \in Now : \E d \in Elapsed(t) :
            /\ messages' = InsertMessage(messages, c, u, content, FALSE, t)
            /\ conversations' =
                 updateConversationLastMessage(conversations, c, LastActivity(t, t + d))
            /\ clock' = t + d
       /\ response' = Answer("sendMessage", u, Created, c, 0)
       /\ emitted' = <<RoomEvent("message", c)>> \o
                      [i \in 1..Len(getConversationParticipants(storage, conversationParticipants, c)) |->
                         UserEvent("conversation:update",
                                   getConversationParticipants(storage, conversationParticipants, c)[i])]
       /\ UNCHANGED <<gateway, storage, conversationParticipants, friendRequests, calls>>

SendMessageReq(u, c, content) == SendMessageOp(u, c, content, MaxMsgs)

\* a handler that lets a user send a request to themselves
IsSelfRequestNever(u, receiverId) == FALSE

\* receiverId === req.userId
IsSelfRequest(u, receiverId) == receiverId = u

\* POST /api/friends/requests, with at most maxReqs records stored
SendFriendRequestOp(u, receiverId, maxReqs) ==
  IF IsSelfRequest(u, receiverId)
  THEN /\ response' = Answer("sendFriendRequest", u, BadRequest, 0, 0)
       /\ emitted' = <<>>
       /\ UNCHANGED <<gateway, storage, clock, store, calls>>
  ELSE \E t \in Now :
         /\ ExistingRequest(friendRequests, u, receiverId) = 0
              => Len(friendRequests) < maxReqs
         /\ friendRequests' = sendFriendRequest(friendRequests, u, receiverId, t)
         /\ clock' = t
         /\ response' = Answer("sendFriendRequest", u, Created, 0,
                                ExistingRequest(friendRequests', u, receiverId))
         /\ emitted' = <<UserEvent("friendRequest", receiverId)>>
         /\ UNCHANGED <<gateway, storage, conversations, conversationParticipants,
                        messages, calls>>

SendFriendRequestReq(u, receiverId) == SendFriendRequestOp(u, receiverId, MaxReqs)

\* an authorization that lets either party of the request update it
MayUpdateRequestEitherParty(reqs, r, u) ==
  reqs[r].receiverId = u \/ reqs[r].senderId = u

\* is u allowed to update request r (routes.ts: only the receiver)
MayUpdateRequest(reqs, r, u) == reqs[r].receiverId = u

\* PATCH /api/friends/requests/:id, with at most maxMsgs messages stored
UpdateRequestOp(u, r, status, maxMsgs) ==
  IF r \notin 1..Len(friendRequests)
  THEN /\ response' = Answer("updateRequest", u, NotFound, 0, r)
       /\ emitted' = <<>>
       /\ UNCHANGED <<gateway, storage, clock, store, calls>>
  ELSE IF ~MayUpdateRequest(friendRequests, r, u)
  THEN /\ response' = Answer("updateRequest", u, Forbidden, 0, r)
       /\ emitted' = <<>>
       /\ UNCHANGED <<gateway, storage, clock, store, calls>>
  ELSE LET request == friendRequests[r]
           found == FindPrivateConversation(storage, conversations,
                      conversationParticipants, request.receiverId, request.senderId)
           c == IF found = 0 THEN Len(conversations) + 1 ELSE found
       IN /\ friendRequests' = updateFriendRequestStatus(friendRequests, r, status)
          /\ IF status = "accepted"
             THEN /\ found = 0 => Len(conversations) < MaxConvs
                  /\ TotalMessages(messages) < maxMsgs
                  /\ \E t \in Now : \E d1 \in Elapsed(t) : \E d2 \in Elapsed(t + d1) :
                       LET convs1 == IF found = 0
                                     THEN Append(conversations,
                                                 NewConversation(conversations, FALSE, t))
                                     ELSE conversations
                           parts1 == IF found = 0
                                     THEN Append(conversationParticipants,
                                                 createConversationRows(storage,
                                                   <<request.senderId>>, request.receiverId, t))
                                     ELSE conversationParticipants
                           msgs1 == IF found = 0 THEN Append(messages, <<>>) ELSE messages
                       IN /\ conversationParticipants' = parts1
                          /\ messages' = InsertMessage(msgs1, c, Null, SystemText, TRUE, t + d1)
                          /\ conversations' = updateConversationLastMessage(convs1, c,
                                                 LastActivity(t + d1, t + d1 + d2))
                          /\ clock' = t + d1 + d2
                  /\ response' = AnswerFound("updateRequest", u, Ok, c, r,
                                             request.receiverId, request.senderId)
             ELSE /\ response' = Answer("updateRequest", u, Ok, 0, r)
                  /\ UNCHANGED <<clock, conversations, conversationParticipants, messages>>
          /\ emitted' = <<UserEvent("friendRequestUpdate", request.senderId),
                          UserEvent("friendRequestUpdate", request.receiverId)>>
          /\ UNCHANGED <<gateway, storage, calls>>

UpdateRequestReq(u, r, status) == UpdateRequestOp(u, r, status, MaxMsgs)

\* does POST /api/conversations take the friends-only find-or-create branch
IsPrivateRequest(participantIds, isGroup) == ~isGroup /\ Len(participantIds) = 1

\* POST /api/conversations
CreateConversationReq(u, participantIds, isGroup) ==
  IF IsPrivateRequest(participantIds, isGroup)
  THEN LET other == participantIds[1]
           found == FindPrivateConversation(storage, conversations,
                      conversationParticipants, u, other)
       IN IF ~areFriends(friendRequests, u, other)
          THEN /\ response' = Answer("createConversation", u, Forbidden, 0, 0)
               /\ emitted' = <<>>
               /\ UNCHANGED <<gateway, storage, clock, store, calls>>
          ELSE IF found # 0
          THEN /\ response' = AnswerFound("createConversation", u, Created, found, 0,
                                          u, other)
               /\ emitted' = <<>>
               /\ UNCHANGED <<gateway, storage, clock, store, calls>>
          ELSE /\ Len(conversations) < MaxConvs
               /\ \E t \in Now :
                    /\ conversations' = Append(conversations,
                                               NewConversation(conversations, FALSE, t))
                    /\ conversationParticipants' =
                         Append(conversationParticipants,
                                createConversationRows(storage, <<other>>, u, t))
                    /\ clock' = t
               /\ messages' = Append(messages, <<>>)
               /\ response' = AnswerFound("createConversation", u, Created,
                                           Len(conversations) + 1, 0, u, other)
               /\ emitted' = <<>>
               /\ UNCHANGED <<gateway, storage, friendRequests, calls>>
  ELSE /\ Len(conversations) < MaxConvs
       /\ \E t \in Now :
            /\ conversations' = Append(conversations,
                                       NewConversation(conversations, isGroup, t))
            /\ conversationParticipants' =
                 Append(conversationParticipants,
                        createConversationRows(storage, participantIds, u, t))
            /\ clock' = t
       /\ messages' = Append(messages, <<>>)
       /\ response' = Answer("createConversation", u, Created, Len(conversations) + 1, 0)
       /\ emitted' = [i \in 1..(Len(participantIds) + 1) |->
                        UserEvent("conversation", (participantIds \o <<u>>)[i])]
       /\ UNCHANGED <<gateway, storage, friendRequests, calls>>

Statuses == {"accepted", "rejected"}

\* friend requests and conversation creation
Next ==
  \/ \E u \in Users, receiverId \in Users : SendFriendRequestReq(u, receiverId)
  \/ \E u \in Users, r \in ReqIds, status \in Statuses : UpdateRequestReq(u, r, status)
  \/ \E u \in Users, participantIds \in ParticipantIdLists, isGroup \in BOOLEAN :
       CreateConversationReq(u, participantIds, isGroup)

Spec == Init /\ [][Next]_vars

\* messaging: the seeded store with one friend request (alice to charlie) pending
InitChat ==
  /\ storage \in StorageKinds
  /\ clock = 0
  /\ conversations = SeedConversations
  /\ conversationParticipants = SeedParticipants(storage)
  /\ messages = SeedMessages
  /\ friendRequests = sendFriendRequest(<<>>, "alice", "charlie", 0)
  /\ response = NoResponse
  /\ emitted = <<>>
  /\ calls = <<>>
  /\ typingTimeouts = NoTimeouts
  /\ timers = {}
  /\ userSockets = NoUserSockets
  /\ sockets = [s \in Sockets |-> NewSocket]
  /\ users = SeedUsers
  /\ typingEvents = 0
  /\ accounts = SeedAccounts
  /\ cache = NoCache
  /\ replica = NoReplica

NextChat ==
  \/ \E u \in Users, c \in ConvIds : GetConversationReq(u, c)
  \/ \E u \in Users, c \in ConvIds : ListMessagesReq(u, c)
  \/ \E u \in Users, c \in ConvIds : MarkReadReq(u, c)
  \/ \E u \in Users, c \in ConvIds, content \in Contents : SendMessageReq(u, c, content)
  \/ \E u \in Users, r \in ReqIds, status \in Statuses : UpdateRequestReq(u, r, status)

SpecChat == InitChat /\ [][NextChat]_vars

\* the friendship subsystem alone, with room for two request records
FriendReqIds == 1..MaxFriendReqs

NextFriends ==
  \/ \E u \in Users, receiverId \in Users :
       SendFriendRequestOp(u, receiverId, MaxFriendReqs)
  \/ \E u \in Users, r \in FriendReqIds, status \in Statuses :
       UpdateRequestOp(u, r, status, MaxFriendMsgs)

SpecFriends == Init /\ [][NextFriends]_vars

\* ------------------------- findOrCreatePrivateConversation, await by await
\* Two calls run concurrently; each step below is the code between two awaits.
CallIds == {1, 2}

NewCall(u1, u2) ==
  [u1 |-> u1, u2 |-> u2, pc |-> "start", user1ConvIds |-> {},
   commonConvIds |-> <<>>, idx |-> 0, created |-> 0, result |-> 0]

InitRace ==
  /\ storage \in StorageKinds
  /\ clock = 0
  /\ conversations = SeedConversations
  /\ conversationParticipants = SeedParticipants(storage)
  /\ messages = SeedMessages
  /\ friendRequests = <<>>
  /\ response = NoResponse
  /\ emitted = <<>>
  /\ calls \in {<<NewCall(p[1], p[2]), NewCall(q[1], q[2])>> :
                  p \in OrderedPairs, q \in OrderedPairs}
  /\ typingTimeouts = NoTimeouts
  /\ timers = {}
  /\ userSockets = NoUserSockets
  /\ sockets = [s \in Sockets |-> NewSocket]
  /\ users = SeedUsers
  /\ typingEvents = 0
  /\ accounts = SeedAccounts
  /\ cache = NoCache
  /\ replica = NoReplica

\* ascending sequence of the members of a finite set of conversation ids
RECURSIVE SortedSeq(_)
SortedSeq(S) ==
  IF S = {} THEN <<>>
  ELSE LET m == CHOOSE x \in S : \A y \in S : x <= y
       IN <<m>> \o SortedSeq(S \ {m})

ConvIdsOfUser(parts, u) == {c \in 1..Len(parts) : u \in UserIdsOf(parts[c])}

\* MemStorage: the scan and, on a miss, createConversation up to its first
\* await (conversation stored, creator's row pushed).
\* DatabaseStorage: the select of userId1's membership rows.
FindStart(i) ==
  /\ calls[i].pc = "start"
  /\ IF storage = "MemStorage"
     THEN LET found == FindPrivateConversation(storage, conversations,
                         conversationParticipants, calls[i].u1, calls[i].u2)
              ids == ParticipantIdsToAdd(storage, <<calls[i].u2>>, calls[i].u1)
          IN IF found # 0
             THEN /\ calls' = [calls EXCEPT ![i].pc = "done", ![i].result = found]
                  /\ UNCHANGED <<conversations, conversationParticipants, messages>>
             ELSE /\ conversations' = Append(conversations,
                                            NewConversation(conversations, FALSE, clock))
                  /\ conversationParticipants' =
                       Append(conversationParticipants, <<NewParticipant(ids[1], clock)>>)
                  /\ messages' = Append(messages, <<>>)
                  /\ calls' = [calls EXCEPT ![i].pc = "addParticipant",
                                            ![i].created = Len(conversations) + 1,
                                            ![i].idx = 2]
     ELSE /\ calls' = [calls EXCEPT ![i].pc = "selectUser2",
                                    ![i].user1ConvIds =
                                      ConvIdsOfUser(conversationParticipants, calls[i].u1)]
          /\ UNCHANGED <<conversations, conversationParticipants, messages>>
  /\ UNCHANGED <<gateway, storage, clock, friendRequests, response, emitted>>

\* DatabaseStorage: the select of userId2's membership rows; commonConvIds
FindSelectUser2(i) ==
  /\ calls[i].pc = "selectUser2"
  /\ LET common == SortedSeq(ConvIdsOfUser(conversationParticipants, calls[i].u2)
                              \cap calls[i].user1ConvIds)
     IN calls' = [calls EXCEPT ![i].commonConvIds = common,
                              ![i].idx = 1,
                              ![i].pc = IF common = <<>> THEN "insertConversation"
                                        ELSE "checkCommon"]
  /\ UNCHANGED <<gateway, storage, clock, store, response, emitted>>

\* DatabaseStorage: getConversationById and getConversationParticipants of
\* the next common conversation
FindCheckCommon(i) ==
  /\ calls[i].pc = "checkCommon"
  /\ LET c == calls[i].commonConvIds[calls[i].idx]
     IN IF IsPrivateMatch(storage, conversations, conversationParticipants, c,
                          calls[i].u1, calls[i].u2)
        THEN calls' = [calls EXCEPT ![i].pc = "done", ![i].result = c]
        ELSE calls' = [calls EXCEPT ![i].idx = @ + 1,
                                   ![i].pc = IF calls[i].idx = Len(calls[i].commonConvIds)
                                             THEN "insertConversation"
                                             ELSE "checkCommon"]
  /\ UNCHANGED <<gateway, storage, clock, store, response, emitted>>

\* DatabaseStorage: createConversation's insert of the conversation row
FindInsertConversation(i) ==
  /\ calls[i].pc = "insertConversation"
  /\ conversations' = Append(conversations, NewConversation(conversations, FALSE, clock))
  /\ conversationParticipants' = Append(conversationParticipants, <<>>)
  /\ messages' = Append(messages, <<>>)
  /\ calls' = [calls EXCEPT ![i].pc = "addParticipant",
                            ![i].created = Len(conversations) + 1,
                            ![i].idx = 1]
  /\ UNCHANGED <<gateway, storage, clock, friendRequests, response, emitted>>

\* addParticipant of the next user; after the last one the call returns
FindAddParticipant(i) ==
  /\ calls[i].pc = "addParticipant"
  /\ LET ids == ParticipantIdsToAdd(storage, <<calls[i].u2>>, calls[i].u1)
         c == calls[i].created
     IN /\ conversationParticipants' =
             [conversationParticipants EXCEPT
                ![c] = Append(@, NewParticipant(ids[calls[i].idx], clock))]
        /\ calls' = IF calls[i].idx = Len(ids)
                    THEN [calls EXCEPT ![i].pc = "done", ![i].result = c]
                    ELSE [calls EXCEPT ![i].idx = @ + 1]
  /\ UNCHANGED <<gateway, storage, clock, conversations, messages, friendRequests,
                 response, emitted>>

NextRace ==
  \E i \in CallIds :
    \/ FindStart(i)
    \/ FindSelectUser2(i)
    \/ FindCheckCommon(i)
    \/ FindInsertConversation(i)
    \/ FindAddParticipant(i)

SpecRace == InitRace /\ [][NextRace]_vars

\* the run "A sends a friend request to B, B accepts, A sends one message, B
\* marks the conversation read", for two users who have no direct conversation
ScenarioRequest(a, b) ==
  /\ response.op = "none"
  /\ FindPrivateConversation(storage, conversations, conversationParticipants, a, b) = 0
  /\ SendFriendRequestOp(a, b, MaxFriendReqs)

ScenarioAccept ==
  /\ response.op = "sendFriendRequest"
  /\ UpdateRequestOp(friendRequests[response.req].receiverId, response.req,
                     "accepted", MaxFriendMsgs)

ScenarioSend(content) ==
  /\ response.op = "updateRequest"
  /\ SendMessageOp(friendRequests[response.req].senderId, response.conv, content,
                   MaxFriendMsgs)

ScenarioMarkRead ==
  /\ response.op = "sendMessage"
  /\ MarkReadReq(friendRequests[1].receiverId, response.conv)

NextScenario ==
  \/ \E p \in OrderedPairs : ScenarioRequest(p[1], p[2])
  \/ ScenarioAccept
  \/ \E content \in Contents : ScenarioSend(content)
  \/ ScenarioMarkRead

SpecScenario == Init /\ [][NextScenario]_vars

\* ------------------- friend-request handlers on DatabaseStorage, await by await
\* Two requests are in flight; each step below is the code between two awaits.
\* (MemStorage's methods resolve without yielding to another request; its
\* handlers are the atomic ones of SpecFriends.)
NewFriendCall(op, u, target, r) ==
  [op |-> op, userId |-> u, target |-> target, req |-> r, pc |-> "start",
   existing |-> 0, existingStatus |-> Null, conv |-> 0, result |-> Null]

FriendCalls ==
  {NewFriendCall("send", p[1], p[2], 0) : p \in OrderedPairs}
  \cup {NewFriendCall("accept", u, Null, 1) : u \in Users}
  \cup {NewFriendCall("status", p[1], p[2], 0) : p \in OrderedPairs}

InitFriendRace ==
  /\ storage = "DatabaseStorage"
  /\ clock = 0
  /\ conversations = SeedConversations
  /\ conversationParticipants = SeedParticipants(storage)
  /\ messages = SeedMessages
  /\ friendRequests = sendFriendRequest(<<>>, "alice", "charlie", 0)
  /\ response = NoResponse
  /\ emitted = <<>>
  /\ calls \in {<<c1, c2>> : c1 \in FriendCalls, c2 \in FriendCalls}
  /\ typingTimeouts = NoTimeouts
  /\ timers = {}
  /\ userSockets = NoUserSockets
  /\ sockets = [s \in Sockets |-> NewSocket]
  /\ users = SeedUsers
  /\ typingEvents = 0
  /\ accounts = SeedAccounts
  /\ cache = NoCache
  /\ replica = NoReplica

\* sendFriendRequest: the select of a record between the two users
SendSelect(i) ==
  /\ calls[i].op = "send" /\ calls[i].pc = "start"
  /\ LET e == ExistingRequest(friendRequests, calls[i].userId, calls[i].target)
     IN calls' = [calls EXCEPT ![i].pc = "write",
                              ![i].existing = e,
                              ![i].existingStatus =
                                IF e = 0 THEN Null ELSE friendRequests[e].status]
  /\ UNCHANGED <<gateway, storage, clock, store, response, emitted>>

\* sendFriendRequest: the update, the return or the insert that follows the
\* select, decided on what the select returned
SendWrite(i) ==
  /\ calls[i].op = "send" /\ calls[i].pc = "write"
  /\ LET e == calls[i].existing
         fresh == [id |-> Len(friendRequests) + 1, senderId |-> calls[i].userId,
                   receiverId |-> calls[i].target, status |-> "pending",
                   createdAt |-> clock]
     IN IF e # 0
        THEN IF calls[i].existingStatus = "rejected"
             THEN /\ friendRequests' = [friendRequests EXCEPT ![e] = [fresh EXCEPT !.id = e]]
                  /\ calls' = [calls EXCEPT ![i].pc = "done", ![i].req = e]
             ELSE /\ friendRequests' = friendRequests
                  /\ calls' = [calls EXCEPT ![i].pc = "done", ![i].req = e]
        ELSE /\ friendRequests' = Append(friendRequests, fresh)
             /\ calls' = [calls EXCEPT ![i].pc = "done", ![i].req = fresh.id]
  /\ UNCHANGED <<gateway, storage, clock, conversations, conversationParticipants, messages,
                 response, emitted>>

\* friends.updateRequest: getFriendRequestById and the 404 / 403 answers
AcceptGetRequest(i) ==
  /\ calls[i].op = "accept" /\ calls[i].pc = "start"
  /\ LET r == calls[i].req
     IN IF r \notin 1..Len(friendRequests)
        THEN calls' = [calls EXCEPT ![i].pc = "done", ![i].result = "notFound"]
        ELSE IF ~MayUpdateRequest(friendRequests, r, calls[i].userId)
        THEN calls' = [calls EXCEPT ![i].pc = "done", ![i].result = "forbidden"]
        ELSE calls' = [calls EXCEPT ![i].pc = "setStatus",
                                   ![i].target = friendRequests[r].senderId]
  /\ UNCHANGED <<gateway, storage, clock, store, response, emitted>>

\* friends.updateRequest: updateFriendRequestStatus
AcceptSetStatus(i) ==
  /\ calls[i].op = "accept" /\ calls[i].pc = "setStatus"
  /\ friendRequests' = updateFriendRequestStatus(friendRequests, calls[i].req, "accepted")
  /\ calls' = [calls EXCEPT ![i].pc = "findOrCreate"]
  /\ UNCHANGED <<gateway, storage, clock, conversations, conversationParticipants, messages,
                 response, emitted>>

\* friends.updateRequest: findOrCreatePrivateConversation(receiver, sender)
\* (its own awaits are those of SpecRace)
AcceptFindOrCreate(i) ==
  /\ calls[i].op = "accept" /\ calls[i].pc = "findOrCreate"
  /\ LET found == FindPrivateConversation(storage, conversations,
                    conversationParticipants, calls[i].userId, calls[i].target)
     IN IF found # 0
        THEN /\ calls' = [calls EXCEPT ![i].pc = "createMessage", ![i].conv = found]
             /\ UNCHANGED <<conversations, conversationParticipants, messages>>
        ELSE /\ conversations' = Append(conversations,
                                       NewConversation(conversations, FALSE, clock))
             /\ conversationParticipants' =
                  Append(conversationParticipants,
                         createConversationRows(storage, <<calls[i].target>>,
                                                calls[i].userId, clock))
             /\ messages' = Append(messages, <<>>)
             /\ calls' = [calls EXCEPT ![i].pc = "createMessage",
                                       ![i].conv = Len(conversations) + 1]
  /\ UNCHANGED <<gateway, storage, clock, friendRequests, response, emitted>>

\* friends.updateRequest: createMessage of the system message
AcceptCreateMessage(i) ==
  /\ calls[i].op = "accept" /\ calls[i].pc = "createMessage"
  /\ messages' = InsertMessage(messages, calls[i].conv, Null, SystemText, TRUE, clock)
  /\ conversations' = updateConversationLastMessage(conversations, calls[i].conv,
                                                   LastActivity(clock, clock))
  /\ calls' = [calls EXCEPT ![i].pc = "done", ![i].result = "ok"]
  /\ UNCHANGED <<gateway, storage, clock, conversationParticipants, friendRequests,
                 response, emitted>>

\* friends.status: the areFriends query and, when it is false, the queries of
\* the sent and the received requests
StatusQuery(i) ==
  /\ calls[i].op = "status" /\ calls[i].pc = "start"
  /\ calls' = [calls EXCEPT ![i].pc = "done",
                            ![i].result = friendStatus(friendRequests, calls[i].userId,
                                                       calls[i].target)]
  /\ UNCHANGED <<gateway, storage, clock, store, response, emitted>>

NextFriendRace ==
  \E i \in CallIds :
    \/ SendSelect(i)
    \/ SendWrite(i)
    \/ AcceptGetRequest(i)
    \/ AcceptSetStatus(i)
    \/ AcceptFindOrCreate(i)
    \/ AcceptCreateMessage(i)
    \/ StatusQuery(i)

SpecFriendRace == InitFriendRace /\ [][NextFriendRace]_vars

\* ------------------------------------------------ socket gateway: typing
\* `${userId}:${conversationId}`
TimeoutKey(userId, c) == <<userId, c>>

SeedConvIds == 1..Len(SeedConversations)

\* the keys the connected sockets can ask a timer for
TimeoutKeys == {TimeoutKey(SocketUserId(s), c) : s \in Sockets, c \in SeedConvIds}

\* handles of setTimeout: the n-th timer alive for a key; a new timer never
\* shares its handle with one that is scheduled or being cleared
TimerIds == TimeoutKeys \X (0..2)

NewTypingCall(s, c, isTyping) ==
  [op |-> "typing", socket |-> s, userId |-> SocketUserId(s), conv |-> c,
   isTyping |-> isTyping, pc |-> "isParticipant"]

RemoveAt(q, i) == SubSeq(q, 1, i - 1) \o SubSeq(q, i + 1, Len(q))

\* origin tells the client's event re-broadcast from the one the timer emits
TypingEvent(c, userId, isTyping, origin, s) ==
  [name |-> "typing", room |-> c, user |-> userId, isTyping |-> isTyping,
   origin |-> origin, except |-> s]

\* is the storage call awaited without another event running in between:
\* the in-memory storage resolves at once, the relational one after its query
ResolvesAtOnce(kind) == kind = "MemStorage"

\* the await a call waits at, counted from the start of its handler
Stage(call) == IF call.pc = "isParticipant" THEN 1 ELSE 2

\* may the await of calls[i] resolve now: with MemStorage the continuations
\* run as microtasks in the order their handlers started, so no handler
\* started earlier is still at the same or an earlier await; a database
\* answers its queries in any order
MayResume(kind, q, i) ==
  ResolvesAtOnce(kind) => \A j \in 1..(i - 1) : Stage(q[j]) > Stage(q[i])

\* socket.on("typing"): the event arrives and isUserInConversation is awaited
TypingReceive(s, c, isTyping) ==
  /\ Len(calls) < MaxInFlight
  /\ calls' = Append(calls, NewTypingCall(s, c, isTyping))
  /\ emitted' = <<>>
  /\ UNCHANGED <<gateway, storage, clock, store, response>>

\* isUserInConversation resolved: return, or await getUserById
TypingCheckParticipant(i) ==
  /\ i \in 1..Len(calls)
  /\ calls[i].pc = "isParticipant"
  /\ MayResume(storage, calls, i)
  /\ calls' = IF isUserInConversation(conversationParticipants, calls[i].userId,
                                      calls[i].conv)
              THEN [calls EXCEPT ![i].pc = "getUser"]
              ELSE RemoveAt(calls, i)
  /\ emitted' = <<>>
  /\ UNCHANGED <<gateway, storage, clock, store, response>>

\* a handler that never finds a stored timeout to clear
HasTimeoutNever(timeouts, key) == FALSE

\* typingTimeouts.has(timeoutKey)
HasTimeout(timeouts, key) == key \in DOMAIN timeouts

\* a handler that arms no timer
ArmsTimerNever(isTyping) == FALSE

\* a handler that arms the timer for every typing event
ArmsTimerAlways(isTyping) == TRUE

\* if (isTyping)
ArmsTimer(isTyping) == isTyping

\* clearTimeout(typingTimeouts.get(timeoutKey)); typingTimeouts.delete(timeoutKey)
ClearTimeout(timeouts, alive, key) ==
  IF HasTimeout(timeouts, key)
  THEN [timeouts |-> [k \in DOMAIN timeouts \ {key} |-> timeouts[k]],
        timers |-> {t \in alive : t.id # timeouts[key]}]
  ELSE [timeouts |-> timeouts, timers |-> alive]

\* getUserById resolved (users are never deleted): clear the stored timeout,
\* re-broadcast the event to the room, arm a new timer when isTyping
TypingProcess(i) ==
  /\ i \in 1..Len(calls)
  /\ calls[i].pc = "getUser"
  /\ MayResume(storage, calls, i)
  /\ LET call == calls[i]
         key == TimeoutKey(call.userId, call.conv)
         cleared == ClearTimeout(typingTimeouts, timers, key)
         free == {x \in TimerIds : x[1] = key} \ {t.id : t \in timers}
         id == CHOOSE x \in free : \A y \in free : x[2] <= y[2]
     IN /\ emitted' = <<TypingEvent(call.conv, call.userId, call.isTyping,
                                    "client", call.socket)>>
        /\ IF ArmsTimer(call.isTyping)
           THEN /\ free # {}
                /\ timers' = cleared.timers \cup
                               {[id |-> id, userId |-> call.userId,
                                 conv |-> call.conv, socket |-> call.socket]}
                /\ typingTimeouts' =
                     [k \in DOMAIN cleared.timeouts \cup {key} |->
                        IF k = key THEN id ELSE cleared.timeouts[k]]
           ELSE /\ timers' = cleared.timers
                /\ typingTimeouts' = cleared.timeouts
  /\ calls' = RemoveAt(calls, i)
  /\ UNCHANGED <<connections, storage, clock, store, response>>

\* the setTimeout callback, 3000 ms after it was armed: emit isTyping false
\* to the room and delete the key
TimerFire(id) ==
  \E t \in timers :
    /\ t.id = id
    /\ emitted' = <<TypingEvent(t.conv, t.userId, FALSE, "timer", t.socket)>>
    /\ typingTimeouts' = [k \in DOMAIN typingTimeouts \ {TimeoutKey(t.userId, t.conv)}
                            |-> typingTimeouts[k]]
    /\ timers' = timers \ {t}
    /\ UNCHANGED <<connections, storage, clock, store, response, calls>>

InitTyping ==
  /\ storage \in StorageKinds
  /\ clock = 0
  /\ conversations = SeedConversations
  /\ conversationParticipants = SeedParticipants(storage)
  /\ messages = SeedMessages
  /\ friendRequests = <<>>
  /\ response = NoResponse
  /\ emitted = <<>>
  /\ calls = <<>>
  /\ typingTimeouts = NoTimeouts
  /\ timers = {}
  /\ userSockets = [u \in {SocketUserId(s) : s \in Sockets} |->
                      {s \in Sockets : SocketUserId(s) = u}]
  /\ sockets = [s \in Sockets |-> ConnectedSocket(SocketUserId(s))]
  /\ users = [u \in Users |->
                [isOnline |-> u \in {SocketUserId(s) : s \in Sockets}, lastSeen |-> 0]]
  /\ typingEvents = 0
  /\ accounts = SeedAccounts
  /\ cache = NoCache
  /\ replica = NoReplica

NextTyping ==
  \/ \E s \in Sockets, c \in SeedConvIds, isTyping \in BOOLEAN :
       TypingReceive(s, c, isTyping)
  \/ \E i \in 1..MaxInFlight : TypingCheckParticipant(i)
  \/ \E i \in 1..MaxInFlight : TypingProcess(i)
  \/ \E id \in TimerIds : TimerFire(id)

\* a timer that is due runs; nothing obliges a client to send an event
SpecTyping ==
  /\ InitTyping
  /\ [][NextTyping]_vars
  /\ \A id \in TimerIds : WF_vars(TimerFire(id))

\* ------------------------------------------------------------------- claims
\* what the claims speak of, read off the stored rows
HasMembership(u, c) ==
  /\ c \in 1..Len(conversationParticipants)
  /\ \E i \in 1..Len(conversationParticipants[c]) :
       conversationParticipants[c][i].userId = u

Watermark(u, c) ==
  LET i == CHOOSE j \in 1..Len(conversationParticipants[c]) :
             conversationParticipants[c][j].userId = u
  IN conversationParticipants[c][i].lastReadAt

MessagesAfterWatermark(u, c) ==
  {i \in 1..Len(messages[c]) : messages[c][i].createdAt > Watermark(u, c)}

OldMessages(c) == IF c \in 1..Len(messages) THEN messages[c] ELSE <<>>

GatedOps == {"sendMessage", "listMessages", "getConversation", "markRead"}

\* C1 (state part): every message with a sender is in a conversation its
\* sender is a participant of
SendersAreParticipants ==
  \A c \in 1..Len(messages) : \A i \in 1..Len(messages[c]) :
    messages[c][i].senderId # Null => HasMembership(messages[c][i].senderId, c)

\* C1 (step part): a message with a sender is appended only while the sender
\* has a membership row, and a gated request of a non-member is answered
\* Forbidden with the store unchanged
GatedStep ==
  /\ \A c \in 1..Len(messages') :
       \A i \in (Len(OldMessages(c)) + 1)..Len(messages'[c]) :
         messages'[c][i].senderId # Null =>
           HasMembership(messages'[c][i].senderId, c)
  /\ (response'.op \in GatedOps
        /\ ~HasMembership(response'.userId, response'.conv))
       => (response'.status = Forbidden /\ UNCHANGED store)

\* C1: only participants read or write a conversation: messages are appended
\* by members only, and send-message, list-messages, get-conversation and
\* mark-read by a non-member are answered Forbidden and change nothing stored
C1_OnlyParticipants == []SendersAreParticipants /\ [][GatedStep]_vars

C1_Witness ==
  /\ response.op = "sendMessage"
  /\ response.status = Forbidden
  /\ ~HasMembership(response.userId, response.conv)
  /\ response.conv \in 1..Len(conversations)
  /\ \E c \in 1..Len(messages) : \E i \in 1..Len(messages[c]) :
       messages[c][i].content \in Contents

\* C2: getUnreadCount(P, C) is the number of messages of C, system messages
\* included, created strictly after P's last-read watermark, and 0 for a
\* user without a membership row
C2_UnreadCount ==
  \A u \in Users : \A c \in ConvIds :
    getUnreadCount(conversationParticipants, messages, u, c) =
      IF HasMembership(u, c) THEN Cardinality(MessagesAfterWatermark(u, c)) ELSE 0

C2_Witness ==
  \E u \in Users : \E c \in 1..Len(conversations) :
    /\ HasMembership(u, c)
    /\ \E i \in MessagesAfterWatermark(u, c) : messages[c][i].isSystem
    /\ \E v \in Users : ~HasMembership(v, c) /\ messages[c] # <<>>

\* C3: right after a participant's mark-read of C, that participant's unread
\* count in C is 0, whatever the other participants' watermarks are
C3_MarkReadZero ==
  (response.op = "markRead" /\ response.status = Ok)
    => getUnreadCount(conversationParticipants, messages,
                      response.userId, response.conv) = 0

C3_Witness ==
  /\ response.op = "markRead"
  /\ response.status = Ok
  /\ messages[response.conv] # <<>>
  /\ Watermark(response.userId, response.conv) > 0
  /\ \E v \in Users :
       /\ v # response.userId
       /\ HasMembership(v, response.conv)
       /\ MessagesAfterWatermark(v, response.conv) # {}

\* the requests that call createMessage, answered with success
AppendedTo(c) ==
  /\ response'.conv = c
  /\ \/ (response'.op = "sendMessage" /\ response'.status = Created)
     \/ (response'.op = "updateRequest" /\ response'.status = Ok)

MessageStep ==
  \A c \in 1..Len(messages') :
    LET old == OldMessages(c)
        new == messages'[c]
    IN /\ Len(new) \in {Len(old), Len(old) + 1}
       /\ SubSeq(new, 1, Len(old)) = old
       /\ AppendedTo(c) <=> Len(new) = Len(old) + 1
       /\ Len(new) = Len(old) + 1 =>
            conversations'[c].lastMessageAt >= new[Len(new)].createdAt

\* C4: createMessage on C appends exactly one message to C, leaves every
\* stored message of every conversation unchanged and in place, and leaves
\* C's last-activity timestamp at or after the new message's creation time
C4_CreateMessage == [][MessageStep]_vars

C4_Witness ==
  /\ response.op = "sendMessage"
  /\ response.status = Created
  /\ Len(messages[response.conv]) >= 2
  /\ conversations[response.conv].lastMessageAt >
       messages[response.conv][Len(messages[response.conv])].createdAt

ParticipantSet(c) ==
  {conversationParticipants[c][i].userId : i \in 1..Len(conversationParticipants[c])}

Friends(a, b) ==
  \E i \in 1..Len(friendRequests) :
    /\ friendRequests[i].status = "accepted"
    /\ {friendRequests[i].senderId, friendRequests[i].receiverId} = {a, b}

\* the conversation a find-or-create call returned is the pair's private one
FoundIsPrivate ==
  response.pair # {} =>
    /\ response.conv \in 1..Len(conversations)
    /\ ~conversations[response.conv].isGroup
    /\ ParticipantSet(response.conv) = response.pair

\* a find-or-create call right after one for the same pair returns the same
\* conversation and creates nothing
SecondFindStep ==
  (response.pair # {} /\ response'.pair = response.pair) =>
    /\ response'.conv = response.conv
    /\ Len(conversations') = Len(conversations)
    /\ conversationParticipants' = conversationParticipants

\* C5: two findOrCreatePrivateConversation calls for the same two users made
\* one after the other, in either argument order, return the same
\* conversation, the second creates no conversation and no membership row,
\* and the conversation is non-group with participants exactly the two users
C5_FindOrCreateTwice == []FoundIsPrivate /\ [][SecondFindStep]_vars

C5_Witness ==
  /\ response.op = "createConversation"
  /\ response.status = Created
  /\ response.pair # {}
  /\ response.conv > Len(SeedConversations)
  /\ \E i \in 1..Len(friendRequests) :
       /\ friendRequests[i].status = "accepted"
       /\ friendRequests[i].senderId = response.userId
       /\ response.pair = {friendRequests[i].senderId, friendRequests[i].receiverId}

\* C6 as claimed: every non-group conversation has exactly two distinct
\* participants, whatever participantIds a create-conversation request carries
C6_DirectHasTwo ==
  \A c \in 1..Len(conversations) :
    ~conversations[c].isGroup =>
      /\ Len(conversationParticipants[c]) = 2
      /\ Cardinality(ParticipantSet(c)) = 2

\* C7 as claimed: with requests handled one at a time, no two non-group
\* conversations have the same two-user participant set
C7_OneDirectPerPair ==
  \A c \in 1..Len(conversations) : \A d \in 1..Len(conversations) :
    (/\ c # d
     /\ ~conversations[c].isGroup
     /\ ~conversations[d].isGroup
     /\ Cardinality(ParticipantSet(c)) = 2)
      => ParticipantSet(c) # ParticipantSet(d)

\* a create-conversation step that creates or returns a non-group conversation
\* of the requester and another user requires the two to be friends; a
\* Forbidden answer creates nothing
FriendsOnlyStep ==
  response'.op = "createConversation" =>
    /\ response'.status = Forbidden =>
         (conversations' = conversations
          /\ conversationParticipants' = conversationParticipants)
    /\ response'.status = Created =>
         \A b \in Users \ {response'.userId} :
           (/\ ~conversations'[response'.conv].isGroup
            /\ {response'.userId, b} \subseteq
                 UserIdsOf(conversationParticipants'[response'.conv]))
             => Friends(response'.userId, b)

\* C9 as claimed: a create-conversation request brings a non-group
\* conversation of the requester and another user into existence, or returns
\* one, only if the two are friends
C9_FriendsOnly == [][FriendsOnlyStep]_vars

\* an update by anyone but the receiver is Forbidden, an update of an unknown
\* request is NotFound; neither changes the store nor emits an event
UpdateRefusedStep ==
  response'.op = "updateRequest" =>
    LET r == response'.req
    IN IF r \notin 1..Len(friendRequests)
       THEN /\ response'.status = NotFound
            /\ UNCHANGED store
            /\ emitted' = <<>>
       ELSE friendRequests[r].receiverId # response'.userId =>
              /\ response'.status = Forbidden
              /\ UNCHANGED store
              /\ emitted' = <<>>

\* C10: an update-request by any user other than the request's current
\* receiver is answered Forbidden, leaves the status unchanged, creates no
\* conversation, appends no system message and emits no friendRequestUpdate;
\* an update of an unknown request id is answered NotFound with no change
C10_OnlyReceiverUpdates == [][UpdateRefusedStep]_vars

C10_Witness ==
  /\ response.op = "updateRequest"
  /\ response.status = Forbidden
  /\ response.req \in 1..Len(friendRequests)
  /\ friendRequests[response.req].senderId = response.userId
  /\ friendRequests[response.req].status = "pending"
  /\ friendRequests[response.req].createdAt > 0

CallsDone == \A i \in CallIds : calls[i].pc = "done"

SamePair == {calls[1].u1, calls[1].u2} = {calls[2].u1, calls[2].u2}

DirectConversationsOf(pair) ==
  {c \in 1..Len(conversations) :
     ~conversations[c].isGroup /\ ParticipantSet(c) = pair}

RequestIds == 1..Len(friendRequests)

RecordsBetween(a, b) ==
  {i \in RequestIds :
     {friendRequests[i].senderId, friendRequests[i].receiverId} = {a, b}}

\* the step is the request "u sends a friend request to v", answered 201
IsSendStep(u, v) ==
  /\ response'.op = "sendFriendRequest"
  /\ response'.userId = u
  /\ response'.status = Created
  /\ emitted' = <<UserEvent("friendRequest", v)>>

AcceptedStays ==
  \A r \in RequestIds :
    friendRequests[r].status = "accepted" => friendRequests'[r].status = "accepted"

SettledFromPendingOnly ==
  \A r \in RequestIds :
    (/\ response'.op = "updateRequest"
     /\ response'.req = r
     /\ response'.status = Ok) => friendRequests[r].status = "pending"

\* C11: an accepted friend request stays accepted in every later state, and an
\* update-request takes a request to accepted or rejected only from pending
C11_AcceptedIsTerminal == [][AcceptedStays /\ SettledFromPendingOnly]_vars

ResendFreshStep ==
  \A u \in Users : \A v \in Users \ {u} : \A e \in RequestIds :
    (/\ IsSendStep(u, v)
     /\ RecordsBetween(u, v) = {e}
     /\ friendRequests[e].status = "rejected")
    => /\ Len(friendRequests') = Len(friendRequests) + 1
       /\ response'.req # e
       /\ friendRequests'[response'.req].id # friendRequests[e].id
       /\ friendRequests'[response'.req].status = "pending"

ResendReuseStep ==
  \A u \in Users : \A v \in Users \ {u} : \A e \in RequestIds :
    (IsSendStep(u, v) /\ RecordsBetween(u, v) = {e}) =>
      /\ response'.req = e
      /\ Len(friendRequests') = Len(friendRequests)
      /\ \A r \in RequestIds \ {e} : friendRequests'[r] = friendRequests[r]
      /\ IF friendRequests[e].status = "rejected"
         THEN /\ friendRequests'[e].id = friendRequests[e].id
              /\ friendRequests'[e].status = "pending"
              /\ friendRequests'[e].senderId = u
              /\ friendRequests'[e].receiverId = v
              /\ friendRequests'[e].createdAt \in clock..clock'
         ELSE friendRequests'[e] = friendRequests[e]

OneRecordPerPair ==
  \A i \in RequestIds : \A j \in RequestIds :
    i # j => {friendRequests[i].senderId, friendRequests[i].receiverId}
               # {friendRequests[j].senderId, friendRequests[j].receiverId}

ExistingReturnedStep ==
  \A u \in Users : \A v \in Users \ {u} :
    (/\ IsSendStep(u, v)
     /\ \E e \in RecordsBetween(u, v) :
          friendRequests[e].status \in {"pending", "accepted"})
    => /\ friendRequests' = friendRequests
       /\ response'.req \in RecordsBetween(u, v)

\* C13: a send while a pending or accepted record exists between the two
\* users, in either direction, returns that record unchanged and creates
\* none; at most one record exists per unordered pair
C13_ExistingReturned == []OneRecordPerPair /\ [][ExistingReturnedStep]_vars

\* the send was answered with a record its requester had received, while
\* another pair has a record of its own
C13_Witness ==
  /\ response.op = "sendFriendRequest"
  /\ response.status = Created
  /\ Len(friendRequests) = 2
  /\ friendRequests[response.req].receiverId = response.userId
  /\ friendRequests[response.req].status = "accepted"

\* C14: the friend status A sees about B is accepted iff B sees accepted,
\* pending iff B sees received, none iff B sees none
C14_StatusSymmetric ==
  \A a \in Users : \A b \in Users \ {a} :
    LET ab == friendStatus(friendRequests, a, b)
        ba == friendStatus(friendRequests, b, a)
    IN /\ ab = "accepted" <=> ba = "accepted"
       /\ ab = "pending" <=> ba = "received"
       /\ ab = "none" <=> ba = "none"

NoSelfRecord ==
  \A r \in RequestIds : friendRequests[r].senderId # friendRequests[r].receiverId

SelfSendStep ==
  response'.op = "sendFriendRequest" =>
    IF response'.status = BadRequest
    THEN /\ friendRequests' = friendRequests
         /\ emitted' = <<>>
    ELSE /\ \A i \in 1..Len(emitted') : emitted'[i].user # response'.userId
         /\ friendRequests'[response'.req].senderId
              # friendRequests'[response'.req].receiverId

\* C15: a send whose receiver is the requester is answered 400, creates no
\* record and emits no event (every send that is not answered 400 addresses
\* another user); no stored record has its sender as receiver
C15_NoSelfRequest == []NoSelfRecord /\ [][SelfSendStep]_vars

\* a self-addressed send was refused while a record is stored
C15_Witness ==
  /\ response.op = "sendFriendRequest"
  /\ response.status = BadRequest
  /\ emitted = <<>>
  /\ Len(friendRequests) > 0

FriendshipNotices(c) ==
  {i \in 1..Len(messages[c]) :
     /\ messages[c][i].isSystem
     /\ messages[c][i].senderId = Null
     /\ messages[c][i].content = SystemText}

HasFriendsConversation(a, b) ==
  \E c \in DirectConversationsOf({a, b}) : FriendshipNotices(c) # {}

ObservedFriendsStep ==
  \A i \in CallIds :
    (/\ calls[i].op = "status"
     /\ calls[i].pc = "start"
     /\ calls'[i].result = "accepted")
    => HasFriendsConversation(calls[i].userId, calls[i].target)

\* C16: a request interleaved with an accept never sees the two users as
\* friends while their direct conversation or its system message is missing
C16_AcceptAtomic == [][ObservedFriendsStep]_vars

\* C17: once the request between A and B is accepted, exactly one non-group
\* conversation of A and B exists and it holds exactly one system message
\* "You both are friends now"
C17_OneConversationOneNotice ==
  \A a \in Users : \A b \in Users \ {a} :
    Friends(a, b) =>
      /\ Cardinality(DirectConversationsOf({a, b})) = 1
      /\ \A c \in DirectConversationsOf({a, b}) :
           Cardinality(FriendshipNotices(c)) = 1

\* the receiver of the scenario's request and the conversation of the run
ScenarioReceiver == friendRequests[1].receiverId

UnreadOf(u, c) == Cardinality(MessagesAfterWatermark(u, c))

\* C18: in the run request, accept, one message "hi" (no mark-read before
\* it), the accepting user's unread count is exactly 1 after the send and 0
\* after the mark-read
C18_UnreadOneThenZero ==
  /\ (response.op = "sendMessage" /\ response.status = Created)
       => UnreadOf(ScenarioReceiver, response.conv) = 1
  /\ (response.op = "markRead" /\ response.status = Ok)
       => UnreadOf(ScenarioReceiver, response.conv) = 0

\* the messages of conversation c created later than u was added to it
MessagesAfterJoin(u, c) ==
  {i \in 1..Len(messages[c]) :
     \E j \in 1..Len(conversationParticipants[c]) :
       /\ conversationParticipants[c][j].userId = u
       /\ messages[c][i].createdAt > conversationParticipants[c][j].joinedAt}

\* C18 (amended): after the send the accepting user's unread count is the
\* number of the conversation's two messages, the system message and "hi",
\* created strictly later than that user was added to the conversation (2
\* when both are, 1 when only "hi" is); after the mark-read it is 0
C18_UnreadCountsNotice ==
  /\ (response.op = "sendMessage" /\ response.status = Created)
       => /\ Len(messages[response.conv]) = 2
          /\ FriendshipNotices(response.conv) = {1}
          /\ getUnreadCount(conversationParticipants, messages, ScenarioReceiver,
                            response.conv)
               = Cardinality(MessagesAfterJoin(ScenarioReceiver, response.conv))
  /\ (response.op = "markRead" /\ response.status = Ok)
       => getUnreadCount(conversationParticipants, messages, ScenarioReceiver,
                         response.conv) = 0

\* the message was sent and the accepting user has two unread messages
C18_Witness ==
  /\ response.op = "sendMessage"
  /\ response.status = Created
  /\ Len(messages[response.conv]) = 2
  /\ UnreadOf(ScenarioReceiver, response.conv) = 2

\* ---------------------------------------------------------- typing claims
TimersOf(alive, key) == {t \in alive : TimeoutKey(t.userId, t.conv) = key}

\* the events of the last step that say isTyping for the key, from origin
TypingEmitted(events, key, isTyping, origin) ==
  {i \in 1..Len(events) :
     /\ events[i].name = "typing"
     /\ TimeoutKey(events[i].user, events[i].room) = key
     /\ events[i].isTyping = isTyping
     /\ events[i].origin = origin}

\* every scheduled timer is the one stored under its key: one timer a key
TimersAreStored ==
  /\ \A t \in timers :
       /\ TimeoutKey(t.userId, t.conv) \in DOMAIN typingTimeouts
       /\ typingTimeouts[TimeoutKey(t.userId, t.conv)] = t.id
  /\ \A key \in DOMAIN typingTimeouts : Cardinality(TimersOf(timers, key)) = 1

\* processing typing(true) leaves exactly one timer scheduled for the key
ArmedStep ==
  \A key \in TimeoutKeys :
    TypingEmitted(emitted', key, TRUE, "client") # {}
      => Cardinality(TimersOf(timers', key)) = 1

\* the timer's typing(false) is emitted once, by a timer that was scheduled
\* for the key, and leaves no timer for the key behind
SyntheticFalseStep ==
  \A key \in TimeoutKeys :
    TypingEmitted(emitted', key, FALSE, "timer") # {}
      => /\ Cardinality(TypingEmitted(emitted', key, FALSE, "timer")) = 1
         /\ Cardinality(TimersOf(timers, key)) = 1
         /\ TimersOf(timers', key) = {}
         /\ key \notin DOMAIN typingTimeouts'

\* a scheduled timer does not stay scheduled for ever: it runs, or a further
\* typing event of its key cancels it
TimerEnds == \A id \in TimerIds : []<>(id \notin {t.id : t \in timers})

\* C19: after typing(true) is processed one timer is armed for the (user,
\* conversation); unless a further typing event of that key is processed it
\* runs, and it emits typing(false) to the room exactly once, also when
\* several typing(true) events came before
C19_TypingClearedOnce ==
  /\ []TimersAreStored
  /\ [][ArmedStep /\ SyntheticFalseStep]_vars
  /\ TimerEnds

\* the timer of alice's key for conversation 1 has just run and left none
\* for that key, while the timer of another key is still scheduled
C19_Witness ==
  /\ TypingEmitted(emitted, TimeoutKey("alice", 1), FALSE, "timer") # {}
  /\ TimersOf(timers, TimeoutKey("alice", 1)) = {}
  /\ timers # {}

\* processing typing(false) cancels the key's timer and arms none
CancelledStep ==
  \A key \in TimeoutKeys :
    TypingEmitted(emitted', key, FALSE, "client") # {}
      => /\ TimersOf(timers', key) = {}
         /\ key \notin DOMAIN typingTimeouts'

\* a timer is scheduled for a key only by processing typing(true) of that key
ArmedOnlyByTrueStep ==
  \A key \in TimeoutKeys :
    TimersOf(timers', key) \ TimersOf(timers, key) # {}
      => TypingEmitted(emitted', key, TRUE, "client") # {}

\* the timer's typing(false) comes only from a timer scheduled for the key
SyntheticNeedsTimerStep ==
  \A key \in TimeoutKeys :
    TypingEmitted(emitted', key, FALSE, "timer") # {} => TimersOf(timers, key) # {}

\* C20: processing typing(false) cancels the armed timer of the (user,
\* conversation) and arms none, so that no typing(false) of the timer is
\* emitted for the key until a new typing(true) is processed
C20_FalseCancelsTimer ==
  [][CancelledStep /\ ArmedOnlyByTrueStep /\ SyntheticNeedsTimerStep]_vars

\* typing(false) of alice for conversation 1 has just been re-broadcast; her
\* timer is gone while charlie's timer for conversation 2 stays scheduled
C20_Witness ==
  /\ TypingEmitted(emitted, TimeoutKey("alice", 1), FALSE, "client") # {}
  /\ TimeoutKey("alice", 1) \notin DOMAIN typingTimeouts
  /\ TimeoutKey("charlie", 2) \in DOMAIN typingTimeouts

\* ------------------------------------------------- conversation creation
\* the conversations the step has created
CreatedConvs == (Len(conversations) + 1)..Len(conversations')

\* C30: every conversation createConversation stored has exactly one
\* membership row for each distinct user among its participants, also when
\* the creator is listed in participantIds or an id is listed twice
C30_OneRowPerDistinctUser ==
  \A c \in 1..Len(conversationParticipants) :
    Len(conversationParticipants[c]) = Cardinality(ParticipantSet(c))

\* a conversation event is addressed to user u by the step
ConversationEventTo(events, u) ==
  \E i \in 1..Len(events) : events[i].name = "conversation" /\ events[i].user = u

\* the request that created a conversation addressed a conversation event
\* to each of its participants
CreationNotifiedStep ==
  \A c \in CreatedConvs :
    \A i \in 1..Len(conversationParticipants'[c]) :
      ConversationEventTo(emitted', conversationParticipants'[c][i].userId)

\* C28: whenever a request creates a conversation (group creation, direct
\* creation by find-or-create, creation during acceptance) a conversation
\* event is addressed to every participant of the new conversation
C28_CreationNotifiesAll == [][CreationNotifiedStep]_vars

\* ------------------------------------------------- message notifications
\* conversation creation followed by sends: the seeded store, users who
\* create conversations and send messages, one request at a time
NextFanout ==
  \/ \E u \in Users, participantIds \in ParticipantIdLists, isGroup \in BOOLEAN :
       CreateConversationReq(u, participantIds, isGroup)
  \/ \E u \in Users, c \in ConvIds, content \in Contents : SendMessageReq(u, c, content)

SpecFanout == Init /\ [][NextFanout]_vars

\* the events of the step named name and sent to room c
RoomEvents(events, name, c) ==
  {i \in 1..Len(events) : events[i].name = name /\ events[i].room = c}

\* the events of the step named name and addressed to user u
UserEvents(events, name, u) ==
  {i \in 1..Len(events) : events[i].name = name /\ events[i].user = u}

\* the events of the step named name
EventsNamed(events, name) == {i \in 1..Len(events) : events[i].name = name}

\* the step persisted a message in conversation c
PersistedIn(c) ==
  /\ c \in 1..Len(messages)
  /\ Len(messages'[c]) = Len(messages[c]) + 1

\* a successful send emits one message event to the room of its conversation
\* and one conversation:update to each participant, and to nobody else
SendNotifiesOnceStep ==
  \A c \in 1..Len(messages) :
    (PersistedIn(c) /\ response'.op = "sendMessage") =>
      /\ Cardinality(RoomEvents(emitted', "message", c)) = 1
      /\ Cardinality(EventsNamed(emitted', "message")) = 1
      /\ \A u \in Users :
           Cardinality(UserEvents(emitted', "conversation:update", u)) =
             IF u \in ParticipantSet(c) THEN 1 ELSE 0

\* a step that persisted no message emits neither event
NoNoticeWithoutMessageStep ==
  (\A c \in 1..Len(messages) : ~PersistedIn(c)) =>
    /\ EventsNamed(emitted', "message") = {}
    /\ EventsNamed(emitted', "conversation:update") = {}

\* C26: a successful send-message request on conversation C emits exactly one
\* message event to room conversation:C and exactly one conversation:update
\* addressed to each participant of C; a rejected send emits neither
C26_SendNotifiesOnce == [][SendNotifiesOnceStep /\ NoNoticeWithoutMessageStep]_vars

\* -------------------------------------------- socket gateway: connections
\* the tokens the client of socket s may present
TokensOf(s) == {NoToken, SignedToken(SocketUserId(s)), ForgedToken(SocketUserId(s))}

\* verifySocketToken: the user id of a token the server signed, else null
verifySocketToken(token) == IF token.signedBy = "server" THEN token.userId ELSE Null

\* a middleware that only asks for a token to be present
RejectsHandshakeNoTokenOnly(token) == token = NoToken

\* io.use: next(new Error(...)) when the token is absent or does not verify
RejectsHandshake(token) == token = NoToken \/ verifySocketToken(token) = Null

\* updateUserOnlineStatus: isOnline and lastSeen = new Date()
updateUserOnlineStatus(us, userId, isOnline, t) ==
  [us EXCEPT ![userId] = [isOnline |-> isOnline, lastSeen |-> t]]

\* io.emit("presence", {userId, isOnline: true})
PresenceOnline(userId) ==
  [name |-> "presence", user |-> userId, room |-> 0, isOnline |-> TRUE]

\* io.emit("presence", {userId, isOnline: false, lastSeen})
PresenceOffline(userId, lastSeen) ==
  [name |-> "presence", user |-> userId, room |-> 0, isOnline |-> FALSE,
   lastSeen |-> lastSeen]

\* userSockets.get(userId).add(socket.id), the set created when absent
AddSocket(map, userId, s) ==
  [u \in DOMAIN map \cup {userId} |->
     IF u = userId
     THEN (IF u \in DOMAIN map THEN map[u] ELSE {}) \cup {s}
     ELSE map[u]]

\* userSocketSet.delete(socket.id); userSockets.delete(userId) when it is empty
DeleteSocket(map, userId, s) ==
  IF map[userId] \ {s} = {}
  THEN [u \in DOMAIN map \ {userId} |-> map[u]]
  ELSE [map EXCEPT ![userId] = @ \ {s}]

\* a client opens socket s with a token: io.use, then the connection handler
\* up to its await, through to its end when the storage resolves at once
Handshake(s, token) ==
  /\ sockets[s].status = "new"
  /\ UNCHANGED <<typingTimeouts, timers, typingEvents, aside, storage, store, response, calls>>
  /\ IF RejectsHandshake(token)
     THEN /\ sockets' = [sockets EXCEPT ![s].status = "rejected", ![s].token = token]
          /\ emitted' = <<>>
          /\ UNCHANGED <<userSockets, users, clock>>
     ELSE LET userId == verifySocketToken(token)
              map == AddSocket(userSockets, userId, s)
          IN /\ userSockets' = map
             /\ IF ResolvesAtOnce(storage)
                THEN \E t \in Now :
                       /\ users' = updateUserOnlineStatus(users, userId, TRUE, t)
                       /\ clock' = t
                       /\ emitted' = <<PresenceOnline(userId)>>
                       /\ sockets' = [sockets EXCEPT ![s].status = "connected",
                                        ![s].token = token, ![s].userId = userId,
                                        ![s].listening = TRUE]
                ELSE /\ sockets' = [sockets EXCEPT ![s].status = "connected",
                                      ![s].token = token, ![s].userId = userId,
                                      ![s].pc = "online"]
                     /\ emitted' = <<>>
                     /\ UNCHANGED <<users, clock>>

\* updateUserOnlineStatus(userId, true) resolved: presence is emitted and the
\* listeners for join, typing and disconnect are registered
ConnectFinish(s) ==
  /\ sockets[s].pc = "online"
  /\ \E t \in Now :
       /\ users' = updateUserOnlineStatus(users, sockets[s].userId, TRUE, t)
       /\ clock' = t
  /\ emitted' = <<PresenceOnline(sockets[s].userId)>>
  /\ sockets' = [sockets EXCEPT ![s].listening = TRUE, ![s].pc = "none"]
  /\ UNCHANGED <<typingTimeouts, timers, typingEvents, aside, userSockets, storage, store, response, calls>>

\* socket.on("join"): the room is joined when the user is a participant
Join(s, c) ==
  /\ sockets[s].status = "connected"
  /\ sockets[s].listening
  /\ sockets' = IF isUserInConversation(conversationParticipants, sockets[s].userId, c)
                THEN [sockets EXCEPT ![s].rooms = @ \cup {c}]
                ELSE sockets
  /\ emitted' = <<>>
  /\ UNCHANGED <<typingTimeouts, timers, typingEvents, aside, userSockets, users, storage, clock, store,
                 response, calls>>

\* the transport of socket s closes: the socket leaves its rooms, and the
\* disconnect listener, when it is registered, runs up to its await
Disconnect(s) ==
  /\ sockets[s].status = "connected"
  /\ UNCHANGED <<typingTimeouts, timers, typingEvents, aside, storage, store, response, calls>>
  /\ LET userId == sockets[s].userId
         closed == [sockets EXCEPT ![s].status = "closed", ![s].rooms = {}]
     IN IF ~sockets[s].listening \/ userId \notin DOMAIN userSockets
        THEN /\ sockets' = closed
             /\ emitted' = <<>>
             /\ UNCHANGED <<userSockets, users, clock>>
        ELSE /\ userSockets' = DeleteSocket(userSockets, userId, s)
             /\ IF userSockets[userId] \ {s} # {}
                THEN /\ sockets' = closed
                     /\ emitted' = <<>>
                     /\ UNCHANGED <<users, clock>>
                ELSE IF ResolvesAtOnce(storage)
                THEN \E t \in Now : \E d \in Elapsed(t) :
                       /\ users' = updateUserOnlineStatus(users, userId, FALSE, t)
                       /\ clock' = t + d
                       /\ emitted' = <<PresenceOffline(userId, t + d)>>
                       /\ sockets' = closed
                ELSE /\ sockets' = [closed EXCEPT ![s].pc = "offline"]
                     /\ emitted' = <<>>
                     /\ UNCHANGED <<users, clock>>

\* updateUserOnlineStatus(userId, false) resolved: presence offline is emitted
DisconnectFinish(s) ==
  /\ sockets[s].pc = "offline"
  /\ \E t \in Now : \E d \in Elapsed(t) :
       /\ users' = updateUserOnlineStatus(users, sockets[s].userId, FALSE, t)
       /\ clock' = t + d
       /\ emitted' = <<PresenceOffline(sockets[s].userId, t + d)>>
  /\ sockets' = [sockets EXCEPT ![s].pc = "none"]
  /\ UNCHANGED <<typingTimeouts, timers, typingEvents, aside, userSockets, storage, store, response, calls>>

\* the sockets an event of the step is written to: io.emit reaches every
\* socket of the namespace, io.to(room) the sockets in the room, and
\* socket.to(room) those but the sender
Recipients(event, socks) ==
  LET open == {s \in Sockets : socks[s].status = "connected"}
  IN IF event.name = "message" THEN {s \in open : event.room \in socks[s].rooms}
     ELSE IF event.name = "typing"
     THEN {s \in open : event.room \in socks[s].rooms} \ {event.except}
     ELSE open

\* connections come and go while messages are sent
NextGateway ==
  \/ \E s \in Sockets : \E token \in TokensOf(s) : Handshake(s, token)
  \/ \E s \in Sockets : ConnectFinish(s)
  \/ \E s \in Sockets, c \in SeedConvIds : Join(s, c)
  \/ \E s \in Sockets : Disconnect(s)
  \/ \E s \in Sockets : DisconnectFinish(s)
  \/ \E u \in Users, c \in SeedConvIds, content \in Contents : SendMessageReq(u, c, content)

SpecGateway == Init /\ [][NextGateway]_vars

\* --------------------------------------------------------- presence claims
\* socket s is registered in the user -> connections map
Registered(map, s) == \E u \in DOMAIN map : s \in map[u]

\* the connections registered for the user of socket s
RegisteredOf(map, s) ==
  IF SocketUserId(s) \in DOMAIN map THEN map[SocketUserId(s)] ELSE {}

\* the presence events of the step for user u that say isOnline
PresenceEmitted(events, u, isOnline) ==
  {i \in 1..Len(events) :
     /\ events[i].name = "presence"
     /\ events[i].user = u
     /\ events[i].isOnline = isOnline}

\* the step stored u as offline with a lastSeen of now, and broadcast a
\* presence event isOnline false that carries a lastSeen
OfflineRecorded(u) ==
  /\ ~users'[u].isOnline
  /\ users'[u].lastSeen >= clock
  /\ \E i \in PresenceEmitted(emitted', u, FALSE) :
       /\ "lastSeen" \in DOMAIN emitted'[i]
       /\ emitted'[i].lastSeen >= clock

\* the transport of socket s closes in the step
Closes(s) == sockets[s].status = "connected" /\ sockets'[s].status = "closed"

\* a registered connection closes: the last one of its user is recorded and
\* announced as offline, at once or when the storage call it awaits
\* resolves; with another connection registered nothing is stored or sent
DisconnectStep ==
  \A s \in Sockets :
    LET u == SocketUserId(s)
    IN /\ (Closes(s) /\ Registered(userSockets, s)) =>
            IF RegisteredOf(userSockets, s) = {s}
            THEN OfflineRecorded(u) \/ sockets'[s].pc = "offline"
            ELSE /\ users'[u] = users[u]
                 /\ PresenceEmitted(emitted', u, FALSE) = {}
                 /\ sockets'[s].pc # "offline"
       /\ (sockets[s].pc = "offline" /\ sockets'[s].pc # "offline") => OfflineRecorded(u)

\* C22: when the last registered connection of a user disconnects the stored
\* isOnline becomes false, lastSeen is recorded and presence isOnline=false
\* with lastSeen is broadcast; when another registered connection of the
\* user remains, isOnline stays as it is and no offline event is emitted
C22_DisconnectPresence == [][DisconnectStep]_vars

\* the connection handler of socket s runs to its end in the step
Establishes(s) == ~sockets[s].listening /\ sockets'[s].listening

\* the connection handler of socket s ends: presence isOnline=true is
\* broadcast for its user when no other connection of the user is
\* registered, and not when there is one
OnlineAnnouncedStep ==
  \A s \in Sockets :
    Establishes(s) =>
      (PresenceEmitted(emitted', SocketUserId(s), TRUE) # {}
         <=> RegisteredOf(userSockets', s) = {s})

\* C23: presence isOnline=true is broadcast when the first live connection
\* of a user is established, and is not broadcast again for a further
\* connection while the user already has one
C23_OnlineAnnouncedOnce == [][OnlineAnnouncedStep]_vars

\* socket s was opened with no token, or with one the server did not sign
BadToken(s) == sockets[s].status # "new" /\ sockets[s].token.signedBy # "server"

\* such a socket is not registered, has no listener and is in no room
NeverConnected ==
  \A s \in Sockets :
    BadToken(s) =>
      /\ sockets[s].status = "rejected"
      /\ ~Registered(userSockets, s)
      /\ ~sockets[s].listening
      /\ sockets[s].rooms = {}
      /\ sockets[s].pc = "none"

\* the step that rejects it stores nothing and broadcasts no presence
RejectedStep ==
  \A s \in Sockets :
    (sockets[s].status = "new" /\ sockets'[s].status = "rejected") =>
      /\ users' = users
      /\ userSockets' = userSockets
      /\ emitted' = <<>>

\* C24: a connection whose handshake carries no token, or a token that
\* fails verification, never reaches connected: it is never added to the
\* user -> connections map, causes no presence broadcast and no write of
\* the online flag, and none of its join or typing events is processed
C24_BadTokenNeverConnected == []NeverConnected /\ [][RejectedStep]_vars

\* a forged token was rejected on s1 while s2, of the same user, is connected
C24_Witness ==
  /\ sockets["s1"].status = "rejected"
  /\ sockets["s1"].token = ForgedToken("alice")
  /\ sockets["s2"].status = "connected"
  /\ sockets["s2"].listening

\* ------------------------------------------------------------- room claims
\* every connection in a room belongs to a participant of the conversation
RoomsOfParticipants ==
  \A s \in Sockets : \A c \in sockets[s].rooms : HasMembership(SocketUserId(s), c)

\* a connection enters a room only of a conversation of its user, so a join
\* for any other conversation leaves the rooms as they are
JoinStep ==
  \A s \in Sockets :
    \A c \in sockets'[s].rooms \ sockets[s].rooms : HasMembership(SocketUserId(s), c)

\* the connections a message event of the step is written to belong to
\* participants of its conversation
MessageDeliveryStep ==
  \A i \in EventsNamed(emitted', "message") :
    \A s \in Recipients(emitted'[i], sockets') :
      HasMembership(SocketUserId(s), emitted'[i].room)

\* C25: each connection in room conversation:C belongs to a participant of
\* C; a join for a conversation the user is not a participant of leaves the
\* room memberships unchanged; message events of C are delivered only to
\* connections of participants of C
C25_RoomsOnlyParticipants ==
  /\ []RoomsOfParticipants
  /\ [][JoinStep /\ MessageDeliveryStep]_vars

\* a message of conversation 1 has just been delivered to alice's socket s1
\* alone, while charlie's socket is connected and in the room of conversation 2
C25_Witness ==
  /\ \E i \in EventsNamed(emitted, "message") :
       /\ emitted[i].room = 1
       /\ Recipients(emitted[i], sockets) = {"s1"}
  /\ sockets["s3"].status = "connected"
  /\ sockets["s3"].rooms = {2}

\* ---------------------------------------------------- addressed events
\* the events routes.ts addresses to one user
AddressedNames == {"friendRequest", "friendRequestUpdate", "conversation",
                   "conversation:update"}

\* the live connections of user u
LiveSocketsOf(socks, u) ==
  {s \in Sockets : socks[s].status = "connected" /\ SocketUserId(s) = u}

\* an event addressed to a user is written to the live connections of that
\* user, whatever rooms they joined, and to no other connection
AddressedDeliveryStep ==
  \A i \in 1..Len(emitted') :
    emitted'[i].name \in AddressedNames =>
      Recipients(emitted'[i], sockets') = LiveSocketsOf(sockets', emitted'[i].user)

\* C27: an event addressed to user:<id> is delivered to every live
\* connection of user <id>, whatever rooms it joined, and to no connection
\* of a different user
C27_AddressedToUserOnly == [][AddressedDeliveryStep]_vars

\* ------------------------------------------- mark-read calls interleaved
NewMarkReadCall(u, c) == [op |-> "markRead", userId |-> u, conv |-> c, pc |-> "isParticipant"]

\* POST /api/conversations/:id/read arrives: the whole handler when the
\* storage resolves at once, else up to await isUserInConversation
MarkReadReceive(u, c) ==
  IF ResolvesAtOnce(storage)
  THEN MarkReadReq(u, c)
  ELSE /\ Len(calls) < MaxInFlight
       /\ calls' = Append(calls, NewMarkReadCall(u, c))
       /\ emitted' = <<>>
       /\ UNCHANGED <<gateway, storage, clock, store, response>>

\* isUserInConversation resolved: 403, or await markConversationAsRead
MarkReadCheckParticipant(i) ==
  /\ i \in 1..Len(calls)
  /\ calls[i].pc = "isParticipant"
  /\ emitted' = <<>>
  /\ IF isUserInConversation(conversationParticipants, calls[i].userId, calls[i].conv)
     THEN /\ calls' = [calls EXCEPT ![i].pc = "markRead"]
          /\ UNCHANGED response
     ELSE /\ calls' = RemoveAt(calls, i)
          /\ response' = Answer("markRead", calls[i].userId, Forbidden, calls[i].conv, 0)
  /\ UNCHANGED <<gateway, storage, clock, store>>

\* the UPDATE of markConversationAsRead runs and the handler answers
MarkReadWrite(i) ==
  /\ i \in 1..Len(calls)
  /\ calls[i].pc = "markRead"
  /\ \E t \in Now :
       /\ conversationParticipants' =
            markConversationAsRead(conversationParticipants, calls[i].userId,
                                   calls[i].conv, t)
       /\ clock' = t
  /\ response' = Answer("markRead", calls[i].userId, Ok, calls[i].conv, 0)
  /\ calls' = RemoveAt(calls, i)
  /\ emitted' = <<>>
  /\ UNCHANGED <<gateway, storage, conversations, messages, friendRequests>>

\* participants mark conversations read, their calls interleaved at the
\* awaits, while messages are sent
NextMarkRead ==
  \/ \E u \in Users, c \in SeedConvIds : MarkReadReceive(u, c)
  \/ \E i \in 1..MaxInFlight : MarkReadCheckParticipant(i)
  \/ \E i \in 1..MaxInFlight : MarkReadWrite(i)
  \/ \E u \in Users, c \in SeedConvIds, content \in Contents : SendMessageReq(u, c, content)

SpecMarkRead == Init /\ [][NextMarkRead]_vars

\* a step that changes a membership row was made for participant P of
\* conversation C by P's mark-read: the row is P's row in C, only its
\* lastReadAt differs, and messages and conversations are as before
MarkReadFrameStep ==
  conversationParticipants' # conversationParticipants =>
    /\ response'.op = "markRead"
    /\ response'.status = Ok
    /\ Len(conversationParticipants') = Len(conversationParticipants)
    /\ \A c \in 1..Len(conversationParticipants) :
         /\ Len(conversationParticipants'[c]) = Len(conversationParticipants[c])
         /\ \A i \in 1..Len(conversationParticipants[c]) :
              LET old == conversationParticipants[c][i]
                  new == conversationParticipants'[c][i]
              IN IF c = response'.conv /\ old.userId = response'.userId
                 THEN new = [old EXCEPT !.lastReadAt = new.lastReadAt]
                 ELSE new = old
    /\ messages' = messages
    /\ conversations' = conversations

\* after a mark-read of P in C was answered, P has no unread message in C
ReadLeavesZero ==
  (response.op = "markRead" /\ response.status = Ok) =>
    UnreadOf(response.userId, response.conv) = 0

\* C29: markConversationAsRead(P, C) changes only P's watermark in C: the
\* watermarks of the other participants, the message logs and the
\* conversations' lastMessageAt stay as they are, also when mark-read calls
\* of several participants interleave; after it, and after a repeated call,
\* P's unread count in C is 0
C29_MarkReadFrame == []ReadLeavesZero /\ [][MarkReadFrameStep]_vars

\* alice's mark-read of conversation 2 was answered with her watermark moved
\* past bob's, while bob's call for the same conversation awaits its update
C29_Witness ==
  /\ response = Answer("markRead", "alice", Ok, 2, 0)
  /\ Watermark("alice", 2) > Watermark("bob", 2)
  /\ \E i \in 1..Len(calls) :
       calls[i] = [NewMarkReadCall("bob", 2) EXCEPT !.pc = "markRead"]

\* ------------------------------------- typing while connections disconnect
\* socket.on("typing") of a connected socket: the event arrives and
\* isUserInConversation is awaited; the clients send MaxTypingEvents at most
TypingReceiveLive(s, c, isTyping) ==
  /\ sockets[s].status = "connected"
  /\ sockets[s].listening
  /\ typingEvents < MaxTypingEvents
  /\ Len(calls) < MaxInFlight
  /\ calls' = Append(calls, NewTypingCall(s, c, isTyping))
  /\ typingEvents' = typingEvents + 1
  /\ emitted' = <<>>
  /\ UNCHANGED <<typingTimeouts, timers, userSockets, sockets, users, aside,
                 storage, clock, store, response>>

\* the typing handlers and their timers, with sockets that disconnect: the
\* disconnect handler leaves typingTimeouts and the armed timers alone
NextTypingLive ==
  \/ \E s \in Sockets, c \in SeedConvIds, isTyping \in BOOLEAN :
       TypingReceiveLive(s, c, isTyping)
  \/ \E i \in 1..MaxInFlight : TypingCheckParticipant(i)
  \/ \E i \in 1..MaxInFlight : TypingProcess(i)
  \/ \E id \in TimerIds : TimerFire(id)
  \/ \E s \in Sockets : Disconnect(s)
  \/ \E s \in Sockets : DisconnectFinish(s)

\* a timer that is due runs, whether or not its socket is still connected
SpecTypingLive ==
  /\ InitTyping
  /\ [][NextTypingLive]_vars
  /\ \A id \in TimerIds : WF_vars(TimerFire(id))

\* typing events of the key, isTyping as given, were just broadcast to the room
TypingBroadcast(key, isTyping) ==
  \E i \in 1..Len(emitted) :
    /\ emitted[i].name = "typing"
    /\ emitted[i].user = key[1]
    /\ emitted[i].room = key[2]
    /\ emitted[i].isTyping = isTyping

\* C21: no stuck typing indicator: when the timers that are due run, every
\* typing(true) broadcast for a (user, conversation) is followed by a
\* typing(false) broadcast to the same room for that user, whatever typing
\* events come later and also when the originating connection disconnects
\* before it sends typing(false)
C21_NoStuckIndicator ==
  \A key \in TimeoutKeys : TypingBroadcast(key, TRUE) ~> TypingBroadcast(key, FALSE)

\* the timer armed through alice's socket s1 has just broadcast
\* typing(false) to conversation 1 after s1 disconnected
C21_Witness ==
  /\ \E i \in TypingEmitted(emitted, TimeoutKey("alice", 1), FALSE, "timer") :
       emitted[i].except = "s1"
  /\ sockets["s1"].status = "closed"

\* ------------------------------------------------- unread counts on send
\* the message the step appended to conversation c
Appended(c) == messages'[c][Len(messages'[c])]

\* the step is a successful send that appended a message to conversation c
SendAppends(c) ==
  /\ c \in 1..Len(messages)
  /\ Len(messages'[c]) = Len(messages[c]) + 1
  /\ response'.op = "sendMessage"

\* how much getUnreadCount(u, d) grew in the step
UnreadGrowth(u, d) ==
  getUnreadCount(conversationParticipants', messages', u, d)
    - getUnreadCount(conversationParticipants, messages, u, d)

\* a send changes no membership row
SendKeepsWatermarksStep ==
  \A c \in 1..Len(messages) :
    SendAppends(c) => conversationParticipants' = conversationParticipants

\* C39: sending a message changes no participant's watermark, and
\* getUnreadCount grows by exactly 1 for every participant of the
\* conversation, the sender included, and by 0 for every other pair
C39_SendAddsOneUnread ==
  [][/\ SendKeepsWatermarksStep
     /\ \A c \in 1..Len(messages) :
          SendAppends(c) =>
            \A u \in Users : \A d \in 1..Len(messages) :
              UnreadGrowth(u, d) = IF d = c /\ HasMembership(u, c) THEN 1 ELSE 0]_vars

\* C39 as amended: the count grows by 1 for the participants whose
\* watermark is earlier than the creation time of the message, and by 0 for
\* a participant who marked the conversation read in that same instant and
\* for every other pair; no watermark changes
C39_SendAddsOneUnreadIfLater ==
  [][/\ SendKeepsWatermarksStep
     /\ \A c \in 1..Len(messages) :
          SendAppends(c) =>
            \A u \in Users : \A d \in 1..Len(messages) :
              UnreadGrowth(u, d) =
                IF d = c /\ HasMembership(u, c) /\ Watermark(u, c) < Appended(c).createdAt
                THEN 1 ELSE 0]_vars

\* alice's message to the group was stored in the instant in which bob had
\* marked the group read: it is unread for alice and charlie, not for bob
C39_Witness ==
  /\ response = Answer("sendMessage", "alice", Created, 2, 0)
  /\ Len(messages[2]) = 2
  /\ Watermark("bob", 2) = messages[2][2].createdAt
  /\ getUnreadCount(conversationParticipants, messages, "alice", 2) = 1
  /\ getUnreadCount(conversationParticipants, messages, "bob", 2) = 0

\* ------------------------------------------------------------ registration
MaxAccounts == 5

InternalError == 500

\* the handles register requests ask for: one taken in the seed, two new
Handles == {"alice", "dave", "erin"}

\* getUserByUsername: is a user stored under the handle
getUserByUsername(accts, username) ==
  \E i \in 1..Len(accts) : accts[i].username = username

\* createUser: MemStorage stores the user whatever the handle; the users
\* table of DatabaseStorage has username unique and the insert throws
createUser(kind, accts, username) ==
  IF kind = "DatabaseStorage" /\ getUserByUsername(accts, username)
  THEN [accounts |-> accts, thrown |-> TRUE]
  ELSE [accounts |-> Append(accts, [id |-> Len(accts) + 1, username |-> username]),
        thrown |-> FALSE]

\* POST /api/auth/register up to await bcrypt.hash: 400 when the handle is taken
RegisterStart(username) ==
  /\ IF getUserByUsername(accounts, username)
     THEN /\ response' = Answer("register", username, BadRequest, 0, 0)
          /\ UNCHANGED calls
     ELSE /\ Len(calls) < MaxInFlight
          /\ calls' = Append(calls, [op |-> "register", username |-> username])
          /\ UNCHANGED response
  /\ emitted' = <<>>
  /\ UNCHANGED <<typingTimeouts, timers, userSockets, sockets, users, typingEvents,
                 cache, replica, accounts, storage, clock, store>>

\* the hash is computed: createUser, answered 201, or 500 when it throws
RegisterCreate(i) ==
  /\ i \in 1..Len(calls)
  /\ LET created == createUser(storage, accounts, calls[i].username)
     IN /\ ~created.thrown => Len(accounts) < MaxAccounts
        /\ accounts' = created.accounts
        /\ response' = Answer("register", calls[i].username,
                               IF created.thrown THEN InternalError ELSE Created, 0, 0)
  /\ calls' = RemoveAt(calls, i)
  /\ emitted' = <<>>
  /\ UNCHANGED <<typingTimeouts, timers, userSockets, sockets, users, typingEvents,
                 cache, replica, storage, clock, store>>

NextRegister ==
  \/ \E username \in Handles : RegisterStart(username)
  \/ \E i \in 1..MaxInFlight : RegisterCreate(i)

SpecRegister == Init /\ [][NextRegister]_vars

\* no two stored users share a handle
NoSharedHandle ==
  \A i, j \in 1..Len(accounts) : accounts[i].username = accounts[j].username => i = j

\* a register request whose handle is taken when it is answered got the
\* handle-taken error, and no user was created
TakenRejectedStep ==
  \A h \in Handles :
    (response' # response /\ response'.op = "register" /\ response'.userId = h
       /\ \E i \in 1..Len(accounts) : accounts[i].username = h)
      => response'.status = BadRequest /\ accounts' = accounts

\* C34: in every reachable state no two users share a handle: a register
\* request for a taken handle returns the handle-taken error and creates no
\* user, also when two register requests for the same new handle interleave
\* between the existence check and the insert
C34_UniqueHandles == []NoSharedHandle /\ [][TakenRejectedStep]_vars

\* ------------------------------------------------------------ list queries
\* the limit a caller passes to getMessagesByConversationId (100 by default)
MaxLimit == 2

\* the orders in which a query may return n rows sorted by key descending:
\* rows of equal key come in any order
DescOrders(keys) ==
  LET n == Len(keys)
  IN {p \in [1..n -> 1..n] :
        /\ \A i, j \in 1..n : p[i] = p[j] => i = j
        /\ \A i, j \in 1..n : i < j => keys[p[i]] >= keys[p[j]]}

\* the sender is resolved; a system message carries none
WithSender(m) ==
  [sender |-> IF m.isSystem THEN Null ELSE m.senderId] @@ m

\* a window that keeps the oldest messages
getMessagesOldest(kind, msgs, c, limit) ==
  LET list == IF c \in 1..Len(msgs) THEN msgs[c] ELSE <<>>
  IN {[i \in 1..Min(limit, Len(list)) |-> WithSender(list[i])]}

\* getMessagesByConversationId: the results the call may return. MemStorage:
\* slice(-limit) of the insertion order. DatabaseStorage: order by createdAt
\* desc, limit, reversed
getMessagesByConversationId(kind, msgs, c, limit) ==
  LET list == IF c \in 1..Len(msgs) THEN msgs[c] ELSE <<>>
      n == Len(list)
      k == Min(limit, n)
      createdAt == [i \in 1..n |-> list[i].createdAt]
  IN IF kind = "MemStorage"
     THEN {[i \in 1..k |-> WithSender(list[n - k + i])]}
     ELSE {[i \in 1..k |-> WithSender(list[p[k + 1 - i]])] : p \in DescOrders(createdAt)}

\* the last message getConversationsByUserId attaches: none, or one message.
\* MemStorage: the last of the array. DatabaseStorage: order by createdAt
\* desc limit 1
LastMessages(kind, list) ==
  IF list = <<>> THEN {<<>>}
  ELSE IF kind = "MemStorage" THEN {<<WithSender(list[Len(list)])>>}
  ELSE {<<WithSender(list[i])>> : i \in {j \in 1..Len(list) :
          \A l \in 1..Len(list) : list[j].createdAt >= list[l].createdAt}}

\* getConversationsByUserId: the results the call may return. MemStorage
\* sorts the user's conversations, taken in creation order, by lastMessageAt
\* descending (the sort is stable); DatabaseStorage orders by lastMessageAt desc
getConversationsByUserId(kind, convs, parts, msgs, userId) ==
  LET ids == SortedSeq(ConvIdsOfUser(parts, userId))
      n == Len(ids)
      lastMessageAt == [i \in 1..n |-> convs[ids[i]].lastMessageAt]
      orders == IF kind = "MemStorage"
                THEN {p \in DescOrders(lastMessageAt) :
                        \A i, j \in 1..n :
                          (i < j /\ lastMessageAt[p[i]] = lastMessageAt[p[j]]) => p[i] < p[j]}
                ELSE DescOrders(lastMessageAt)
      lasts == {f \in [1..n -> UNION {LastMessages(kind, msgs[ids[i]]) : i \in 1..n}] :
                  \A i \in 1..n : f[i] \in LastMessages(kind, msgs[ids[i]])}
  IN {[i \in 1..n |->
         [id |-> ids[p[i]],
          lastMessageAt |-> lastMessageAt[p[i]],
          participants |-> getConversationParticipants(kind, parts, ids[p[i]]),
          lastMessage |-> f[p[i]],
          unreadCount |-> getUnreadCount(parts, msgs, userId, ids[p[i]])]] :
      p \in orders, f \in lasts}

\* the answer of a list query
Listed(op, u, c, limit, result) ==
  [op |-> op, userId |-> u, status |-> Ok, conv |-> c, req |-> limit, pair |-> {},
   result |-> result]

\* storage.getMessagesByConversationId(c, limit)
GetMessages(c, limit) ==
  /\ \E r \in getMessagesByConversationId(storage, messages, c, limit) :
       response' = Listed("getMessages", Null, c, limit, r)
  /\ emitted' = <<>>
  /\ UNCHANGED <<gateway, storage, clock, store, calls>>

\* storage.getConversationsByUserId(u)
GetConversations(u) ==
  /\ \E r \in getConversationsByUserId(storage, conversations, conversationParticipants,
                                       messages, u) :
       response' = Listed("getConversations", u, 0, 0, r)
  /\ emitted' = <<>>
  /\ UNCHANGED <<gateway, storage, clock, store, calls>>

\* the lists are read while messages are sent, a friend request is accepted
\* and conversations are marked read
NextQueries ==
  \/ \E c \in ConvIds, limit \in 1..MaxLimit : GetMessages(c, limit)
  \/ \E u \in Users : GetConversations(u)
  \/ \E u \in Users, c \in ConvIds : MarkReadReq(u, c)
  \/ \E u \in Users, c \in ConvIds, content \in Contents : SendMessageReq(u, c, content)
  \/ \E u \in Users, r \in ReqIds : UpdateRequestReq(u, r, "accepted")

SpecQueries == InitChat /\ [][NextQueries]_vars

\* ------------------------------------------------------ message window claim
\* the stored messages of conversation c, none when c does not exist
StoredMessages(c) ==
  IF c \in 1..Len(messages) THEN messages[c] ELSE <<>>

\* the messages of conversation c that a listing left out
Omitted(c, result) ==
  {i \in 1..Len(StoredMessages(c)) :
     \A j \in 1..Len(result) : result[j].id # StoredMessages(c)[i].id}

\* a listing of c under a limit holds min(limit, n) distinct messages of c in
\* ascending creation time, none of them older than an omitted message, system
\* messages with no sender and the others with theirs
RecentWindow(c, limit, result) ==
  LET list == StoredMessages(c)
      n == Len(list)
      k == IF limit < n THEN limit ELSE n
  IN /\ Len(result) = k
     /\ \A j \in 1..k : \E i \in 1..n :
          /\ result[j].id = list[i].id
          /\ result[j].content = list[i].content
          /\ result[j].createdAt = list[i].createdAt
          /\ result[j].sender = IF list[i].isSystem THEN Null ELSE list[i].senderId
     /\ \A i, j \in 1..k : i < j =>
          /\ result[i].id # result[j].id
          /\ result[i].createdAt <= result[j].createdAt
     /\ Cardinality(Omitted(c, result)) = n - k
     /\ \A i \in Omitted(c, result), j \in 1..k : list[i].createdAt <= result[j].createdAt

\* C33: getMessagesByConversationId(C, limit) returns the min(limit, n) most
\* recently created messages of C, oldest to newest, system messages included
\* with no sender; when C holds more than limit messages the oldest n - limit
\* are the ones left out.
C33_MostRecentWindow ==
  response.op = "getMessages" => RecentWindow(response.conv, response.req, response.result)

\* a listing that left out a message while a later one of the same conversation
\* is included
C33_Witness ==
  /\ response.op = "getMessages"
  /\ Len(StoredMessages(response.conv)) > response.req
  /\ Len(response.result) = response.req
  /\ \E i \in Omitted(response.conv, response.result), j \in 1..Len(response.result) :
       StoredMessages(response.conv)[i].createdAt < response.result[j].createdAt

\* ------------------------------------------------- conversation list claim
\* the summary a listing for user u owes conversation c: its participants,
\* the message appended last (a system message with no sender) and u's
\* unread count
SummaryOf(u, c, entry) ==
  LET list == messages[c]
      last == list[Len(list)]
  IN /\ entry.lastMessageAt = conversations[c].lastMessageAt
     /\ {entry.participants[i] : i \in 1..Len(entry.participants)} =
          {conversationParticipants[c][i].userId : i \in 1..Len(conversationParticipants[c])}
     /\ IF list = <<>> THEN entry.lastMessage = <<>>
        ELSE /\ Len(entry.lastMessage) = 1
             /\ entry.lastMessage[1].id = last.id
             /\ entry.lastMessage[1].sender = IF last.isSystem THEN Null ELSE last.senderId
     /\ entry.unreadCount = getUnreadCount(conversationParticipants, messages, u, c)

\* a listing for u holds u's conversations, each once, by descending last
\* activity, each with its summary
ListedSummaries ==
  response.op = "getConversations" =>
    LET u == response.userId
        r == response.result
        mine == {c \in 1..Len(conversationParticipants) :
                   \E i \in 1..Len(conversationParticipants[c]) :
                     conversationParticipants[c][i].userId = u}
    IN /\ {r[i].id : i \in 1..Len(r)} = mine
       /\ Len(r) = Cardinality(mine)
       /\ \A i, j \in 1..Len(r) : i < j => r[i].lastMessageAt >= r[j].lastMessageAt
       /\ \A i \in 1..Len(r) : SummaryOf(u, r[i].id, r[i])

\* after a message was appended to c, every listing for a participant of c
\* starts with c
AppendedFirstStep ==
  \A c \in 1..Len(messages) :
    Len(messages'[c]) > Len(messages[c]) =>
      \A i \in 1..Len(conversationParticipants'[c]) :
        \A r \in getConversationsByUserId(storage, conversations', conversationParticipants',
                                          messages', conversationParticipants'[c][i].userId) :
          r[1].id = c

\* C32: getConversationsByUserId(U) returns exactly the conversations U is a
\* member of, each once, by descending last activity, each with its
\* participant list, its most recently appended message (no sender for a
\* system message) and U's unread count; right after a message is appended to
\* C, C is first in the list of each participant of C.
C32_ListForUser ==
  []ListedSummaries /\ [][AppendedFirstStep]_vars

\* ---------------------------------------------------- client message cache
\* the limit getMessagesByConversationId uses when the caller passes none
DefaultLimit == 100

\* an updater that appends whatever arrives
setMessagesAppend(old, c, msg) ==
  IF c \notin DOMAIN old THEN (c :> <<msg>>) @@ old
  ELSE [old EXCEPT ![c] = Append(@, msg)]

\* the updater both the socket "message" handler and useSendMessage.onSuccess
\* pass to setQueryData for the key of msg's conversation
setMessagesCache(old, c, msg) ==
  IF c \notin DOMAIN old THEN (c :> <<msg>>) @@ old
  ELSE IF \E i \in 1..Len(old[c]) : old[c][i].id = msg.id THEN old
  ELSE [old EXCEPT ![c] = Append(@, msg)]

\* what a client step records
ClientStep(op, c, id) ==
  [op |-> op, userId |-> Null, status |-> Ok, conv |-> c, req |-> id, pair |-> {}]

\* the socket delivers the "message" event of a stored message, any number of
\* times
ClientMessageEvent(c, i) ==
  /\ c \in 1..Len(messages)
  /\ i \in 1..Len(messages[c])
  /\ cache' = setMessagesCache(cache, c, messages[c][i])
  /\ response' = ClientStep("client:message", c, messages[c][i].id)
  /\ emitted' = <<>>
  /\ UNCHANGED <<typingTimeouts, timers, userSockets, sockets, users, typingEvents,
                 accounts, replica, storage, clock, store, calls>>

\* the answer of POST messages reaches useSendMessage.onSuccess
ClientSendSuccess(c, i) ==
  /\ c \in 1..Len(messages)
  /\ i \in 1..Len(messages[c])
  /\ ~messages[c][i].isSystem
  /\ cache' = setMessagesCache(cache, c, messages[c][i])
  /\ response' = ClientStep("client:onSuccess", c, messages[c][i].id)
  /\ emitted' = <<>>
  /\ UNCHANGED <<typingTimeouts, timers, userSockets, sockets, users, typingEvents,
                 accounts, replica, storage, clock, store, calls>>

\* useMessages fetches the conversation's messages and stores the answer
ClientFetch(c) ==
  /\ c \in 1..Len(messages)
  /\ \E r \in getMessagesByConversationId(storage, messages, c, DefaultLimit) :
       cache' = (c :> r) @@ cache
  /\ response' = ClientStep("client:fetch", c, 0)
  /\ emitted' = <<>>
  /\ UNCHANGED <<typingTimeouts, timers, userSockets, sockets, users, typingEvents,
                 accounts, replica, storage, clock, store, calls>>

NextCache ==
  \/ \E c \in ConvIds, i \in 1..MaxMsgs : ClientMessageEvent(c, i)
  \/ \E c \in ConvIds, i \in 1..MaxMsgs : ClientSendSuccess(c, i)
  \/ \E c \in ConvIds : ClientFetch(c)
  \/ \E u \in Users, c \in ConvIds, content \in Contents : SendMessageReq(u, c, content)

SpecCache == InitChat /\ [][NextCache]_vars

\* C40: a client's cached message list of a conversation never holds two
\* entries with the same id, whichever of the socket "message" event and the
\* HTTP answer of the send arrives first, and when an event is delivered more
\* than once.
C40_NoDuplicateInCache ==
  \A c \in DOMAIN cache :
    \A i, j \in 1..Len(cache[c]) : i < j => cache[c][i].id # cache[c][j].id

\* onSuccess ran for a message the cache already held before a later one
C40_Witness ==
  /\ response.op = "client:onSuccess"
  /\ response.conv \in DOMAIN cache
  /\ \E i \in 1..Len(cache[response.conv]) :
       /\ cache[response.conv][i].id = response.req
       /\ i < Len(cache[response.conv])

\* ------------------------------------------------------- the two storages
\* The storage calls below are applied to a MemStorage store (the store
\* variables) and to a DatabaseStorage store (replica), both empty at first.
MaxParityConvs == 1
MaxParityMsgs == 2

InitParity ==
  /\ storage = "MemStorage"
  /\ clock = 0
  /\ conversations = <<>>
  /\ conversationParticipants = <<>>
  /\ messages = <<>>
  /\ friendRequests = <<>>
  /\ response = NoResponse
  /\ emitted = <<>>
  /\ calls = <<>>
  /\ typingTimeouts = NoTimeouts
  /\ timers = {}
  /\ userSockets = NoUserSockets
  /\ sockets = [s \in Sockets |-> NewSocket]
  /\ users = SeedUsers
  /\ typingEvents = 0
  /\ accounts = SeedAccounts
  /\ cache = NoCache
  /\ replica = NoReplica

\* what the same call returned from each storage
Returned(op, u, c, mem, db) ==
  [op |-> op, userId |-> u, status |-> Ok, conv |-> c, req |-> 0, pair |-> {},
   mem |-> mem, db |-> db]

\* storage.createConversation({isGroup}, participantIds, creatorId)
ParityCreateConversation(creatorId, participantIds, isGroup) ==
  /\ Len(conversations) < MaxParityConvs
  /\ \E t \in Now :
       LET conv == NewConversation(conversations, isGroup, t)
           dbConv == NewConversation(replica.conversations, isGroup, t)
       IN /\ conversations' = Append(conversations, conv)
          /\ conversationParticipants' =
               Append(conversationParticipants,
                      createConversationRows("MemStorage", participantIds, creatorId, t))
          /\ messages' = Append(messages, <<>>)
          /\ replica' =
               [conversations |-> Append(replica.conversations, dbConv),
                conversationParticipants |->
                  Append(replica.conversationParticipants,
                         createConversationRows("DatabaseStorage", participantIds, creatorId, t)),
                messages |-> Append(replica.messages, <<>>)]
          /\ clock' = t
          /\ response' = Returned("createConversation", creatorId, conv.id, conv, dbConv)
  /\ emitted' = <<>>
  /\ UNCHANGED <<typingTimeouts, timers, userSockets, sockets, users, typingEvents,
                 accounts, cache, storage, friendRequests, calls>>

\* storage.createMessage({conversationId, senderId, content})
ParityCreateMessage(senderId, c, content) ==
  /\ c \in 1..Len(conversations)
  /\ TotalMessages(messages) < MaxParityMsgs
  /\ \E t \in Now : \E d \in Elapsed(t) :
       /\ messages' = InsertMessage(messages, c, senderId, content, FALSE, t)
       /\ conversations' = updateConversationLastMessage(conversations, c, LastActivity(t, t + d))
       /\ replica' =
            [replica EXCEPT
               !.messages = InsertMessage(@, c, senderId, content, FALSE, t),
               !.conversations = updateConversationLastMessage(@, c, LastActivity(t, t + d))]
       /\ clock' = t + d
       /\ response' = Returned("createMessage", senderId, c,
                               messages'[c][Len(messages'[c])],
                               replica'.messages[c][Len(replica'.messages[c])])
  /\ emitted' = <<>>
  /\ UNCHANGED <<typingTimeouts, timers, userSockets, sockets, users, typingEvents,
                 accounts, cache, storage, conversationParticipants, friendRequests, calls>>

\* storage.getConversationParticipants(c)
ParityGetParticipants(c) ==
  /\ c \in 1..Len(conversations)
  /\ response' = Returned("getConversationParticipants", Null, c,
       getConversationParticipants("MemStorage", conversationParticipants, c),
       getConversationParticipants("DatabaseStorage", replica.conversationParticipants, c))
  /\ emitted' = <<>>
  /\ UNCHANGED <<gateway, storage, clock, store, calls>>

\* storage.getUnreadCount(u, c)
ParityGetUnreadCount(u, c) ==
  /\ c \in 1..Len(conversations)
  /\ response' = Returned("getUnreadCount", u, c,
       getUnreadCount(conversationParticipants, messages, u, c),
       getUnreadCount(replica.conversationParticipants, replica.messages, u, c))
  /\ emitted' = <<>>
  /\ UNCHANGED <<gateway, storage, clock, store, calls>>

NextParity ==
  \/ \E u \in Users, participantIds \in ParticipantIdLists, isGroup \in BOOLEAN :
       ParityCreateConversation(u, participantIds, isGroup)
  \/ \E u \in Users, c \in ConvIds, content \in Contents : ParityCreateMessage(u, c, content)
  \/ \E c \in ConvIds : ParityGetParticipants(c)
  \/ \E u \in Users, c \in ConvIds : ParityGetUnreadCount(u, c)

SpecParity == InitParity /\ [][NextParity]_vars

\* how often x occurs in the list s
Occurrences(s, x) == Cardinality({i \in 1..Len(s) : s[i] = x})

\* two answers agree: participant lists as collections with their counts,
\* everything else as it is
SameAnswer(op, mem, db) ==
  IF op = "getConversationParticipants"
  THEN /\ Len(mem) = Len(db)
       /\ \A u \in Users : Occurrences(mem, u) = Occurrences(db, u)
  ELSE mem = db

\* C31: for every sequence of storage calls applied to both from empty
\* stores, MemStorage and DatabaseStorage return the same results, the
\* participant lists and counts they return included.
C31_StoragesAgree ==
  "mem" \in DOMAIN response => SameAnswer(response.op, response.mem, response.db)

\* ------------------------------------------------ typing events in order
\* the step re-broadcast a client's typing event and updated its timer
TypingHandled ==
  /\ Len(calls') < Len(calls)
  /\ emitted' # <<>>
  /\ emitted'[1].name = "typing"
  /\ emitted'[1].origin = "client"

\* the event handled is the earliest still waiting of its connection and
\* conversation
HandledInArrivalOrder ==
  \E i \in 1..Len(calls) :
    /\ calls' = SubSeq(calls, 1, i - 1) \o SubSeq(calls, i + 1, Len(calls))
    /\ calls[i].pc = "getUser"
    /\ \A j \in 1..(i - 1) :
         ~(calls[j].socket = calls[i].socket /\ calls[j].conv = calls[i].conv)

\* C36: the typing events of one connection take effect in the order they
\* arrived: of two events e1, e2 of one connection for one conversation, e1 is
\* re-broadcast and updates the timer before e2, whatever the latency of the
\* awaited lookups.
C36_TypingInArrivalOrder ==
  [][TypingHandled => HandledInArrivalOrder]_vars

\* ------------------------------------------------- malformed socket events
\* the payload of a join or typing event that is not {conversationId, ...}
Payloads == {"missing", "null", "notObject", "noConversationId"}
Events == {"join", "typing"}

\* const { conversationId } = data: throws a TypeError for undefined and null
Destructures(payload) == payload \notin {"missing", "null"}

\* the ways the listener, an async function, can end for a payload with no
\* conversationId: MemStorage.isUserInConversation finds no rows for
\* undefined and the listener returns; the database query for undefined may
\* also fail. A throw rejects a promise nothing handles
ListenerEnds(kind, payload) ==
  IF ~Destructures(payload) THEN {"unhandledRejection"}
  ELSE IF kind = "MemStorage" THEN {"ignored"}
  ELSE {"ignored", "unhandledRejection"}

\* a connected socket sends a join or typing event with a malformed payload
MalformedEvent(s, event, payload) ==
  /\ sockets[s].status = "connected"
  /\ sockets[s].listening
  /\ \E end \in ListenerEnds(storage, payload) :
       response' = [op |-> end, userId |-> sockets[s].userId, status |-> 0, conv |-> 0,
                    req |-> 0, pair |-> {}, event |-> event, payload |-> payload]
  /\ emitted' = <<>>
  /\ UNCHANGED <<gateway, storage, clock, store, calls>>

NextEvents ==
  \/ \E s \in Sockets, event \in Events, payload \in Payloads : MalformedEvent(s, event, payload)
  \/ \E s \in Sockets, c \in SeedConvIds : Join(s, c)

SpecEvents == InitTyping /\ [][NextEvents]_vars

\* a malformed event was handled
MalformedHandled == "payload" \in DOMAIN response' /\ response' # response

\* C35: a join or typing event whose payload is missing, is not an object or
\* lacks conversationId is swallowed: no room changes, no timer is created,
\* nothing is emitted and the process is left in no crashed or unhandled-error
\* state.
C35_MalformedSwallowed ==
  [][MalformedHandled =>
       /\ sockets' = sockets
       /\ timers' = timers
       /\ typingTimeouts' = typingTimeouts
       /\ emitted' = <<>>
       /\ response'.op # "unhandledRejection"]_vars

\* ------------------------------------------------- connections are removed
\* a storage call that is awaited is answered in the end
SpecGatewayLive ==
  /\ Init
  /\ [][NextGateway]_vars
  /\ \A s \in Sockets : WF_vars(ConnectFinish(s)) /\ WF_vars(DisconnectFinish(s))

\* user u has no connection whose transport is open
NoLiveConnection(u) ==
  \A s \in Sockets : sockets[s].userId = u => sockets[s].status # "connected"

\* C37: every connection that reached the connected state and later
\* disconnects is eventually removed from the user -> connections map, at
\* whatever point of the connection handler the disconnect arrives; hence a
\* user left with no live connection eventually has no map entry and is stored
\* as offline.
C37_DisconnectedRemoved ==
  /\ \A s \in Sockets :
       (sockets[s].status = "closed") ~> (\A u \in DOMAIN userSockets : s \notin userSockets[u])
  /\ \A u \in Users :
       <>[]NoLiveConnection(u) => <>[](u \notin DOMAIN userSockets /\ ~users[u].isOnline)


\* -------------------------------------------------- presence after races
\* no write of the online status and no presence broadcast is pending
Quiescent(socks) == \A s \in Sockets : socks[s].pc = "none"

\* with nothing pending, u is stored online exactly when the map holds a
\* connection of u
StoredAsMapped ==
  Quiescent(sockets) =>
    \A u \in Users : users[u].isOnline <=> (u \in DOMAIN userSockets /\ userSockets[u] # {})

\* a presence event that leaves nothing pending says what the map says
AnnouncedAsMappedStep ==
  Quiescent(sockets') =>
    \A i \in 1..Len(emitted') :
      emitted'[i].name = "presence" =>
        (emitted'[i].isOnline <=> emitted'[i].user \in DOMAIN userSockets')

\* C38: for any interleaving of connects and disconnects of one user's
\* connections, once every pending write and broadcast has completed the
\* stored isOnline is true exactly when the map holds a connection of the
\* user, and the last presence event broadcast for the user says the same.
C38_PresenceMatchesMap ==
  []StoredAsMapped /\ [][AnnouncedAsMappedStep]_vars

====
